---------------------------- MODULE Spec2Model ----------------------------
(***************************************************************************)
(* State-machine model of the octet storage engine:                        *)
(*   StorageManager  (src/src/storage/storage_manager.cpp)                 *)
(*   JournalManager  (src/src/storage/journal_manager.cpp)                 *)
(*   file primitives (src/src/utils/file_utils.cpp)                        *)
(*                                                                         *)
(* The data directory holds two files, the journal and the snapshot, and   *)
(* the timestamped backups of journals that failed validation.  A journal  *)
(* line is a record [type, uuid, data] (the timestamp field is never read  *)
(* back by the program and is left out); a line whose type is not one of   *)
(* OPERATION_TYPE_STRINGS is a line the entry regex rejects.  The fixed    *)
(* header line is a comment for every reader and is implicit.              *)
(***************************************************************************)
EXTENDS Integers, Sequences, FiniteSets, TLC

\* ------------------------------------------------------------------ bounds
MaxUuid == 3          \* identifiers generateUuid hands out in one behaviour
MaxJournal == 3       \* journal lines written in one behaviour
MaxRestarts == 1      \* constructions after the first one
MaxOpenLines == 3     \* journal lines of a directory handed to the constructor
MaxThreshold == 1     \* largest value given to setSnapshotOperationsThreshold
MaxWraps == 1         \* times the counter field of generateUuid starts over
MaxData == 3          \* characters in the data of an entry handed to serialize
MaxPairs == 2         \* pairs in a map handed to serializeMap
MaxLines == 3         \* lines in the journal of a JournalManager called alone
MaxFiles == 2         \* lock files created for the lock path in one behaviour
MaxGuards == 2        \* FileLockGuards a thread holds at one time

\* --------------------------------------------------------------- constants
Users == {"u1", "u2"}
SnapshotThread == "bg"
MainThread == "main"
Threads == Users \cup {SnapshotThread, MainThread}

Data == {"a", "b"}
Uuids == {ToString(n) : n \in 1..MaxUuid}
NoUuid == ""          \* the empty identifier: std::nullopt, uuid.empty()
NoData == "none"      \* std::nullopt of optional<string> holding a value

DefaultOperationsThreshold == 100

OPERATION_TYPE_STRINGS == {"INSERT", "UPDATE", "REMOVE", "CHECKPOINT"}

EmptyMap == [u \in {} |-> "a"]

VARIABLES
    phase,                          \* "closed" | "running" | "stopping" | "failed"
    pc,                             \* position of every thread
    op,                             \* per thread: the call in progress / last call
    ret,                            \* per thread: result of the last finished call
    dataStore_,                     \* StorageManager::dataStore_
    storageMutex_,                  \* thread holding the exclusive side
    operationsSinceLastSnapshot_,
    snapshotOperationsThreshold_,
    snapshotRequested_,
    shutdownRequested_,
    shouldCreateSnapshot,           \* local of snapshotThreadFunction
    timeElapsed,                    \* now - lastSnapshotTime_ >= time threshold
    dataCopy,                       \* per thread: local of createSnapshot
    snapshotId,                     \* per thread: local of createSnapshot
    lastCheckpointId_,              \* JournalManager::lastCheckpointId_ (cache)
    nextUuid,                       \* UuidGenerator: next fresh identifier
    journalExists,                  \* the journal file exists
    journal,                        \* lines of the journal file after the header
    snapshotFile,                   \* [exists, bytes, sid]: the snapshot file
    backups,                        \* contents of the .backup.<time> files
    restarts,                       \* constructions so far
    lastStop,                       \* how the previous run ended
    acked,                          \* history: map when the last mutation returned
    expected,                       \* history: map the previous run vouched for
    inflight,                       \* history: entry appended, call not returned
    unitCall,                       \* a function or JournalManager call made on its own
    unitResult,                     \* what that call returned
    fileLockMap,                    \* the entry of the lock path, if any
    fileLockMutex,                  \* thread holding it across a blocking flock
    lockFile,                       \* the file that has the lock path's name
    filesCreated,                   \* lock files created so far
    flocks,                         \* flock locks held: [fd, type]
    lockPc,                         \* position of each acquireFileLock call
    lockRequest,                    \* its arguments and descriptor
    guards,                         \* per thread: modes of its locked guards
    filePc,                         \* position of each file_utils / journal call
    fileLocal,                      \* its arguments and locals
    files,                          \* directory of a path written on its own
    journalMutex_,                  \* JournalManager::journalMutex_ (holder)
    snapshotMutex_,                 \* StorageManager::snapshotMutex_ (holder)
    sharedHolders                   \* threads holding storageMutex_ shared

vars == <<phase, pc, op, ret, dataStore_, storageMutex_,
          operationsSinceLastSnapshot_, snapshotOperationsThreshold_,
          snapshotRequested_, shutdownRequested_,
          shouldCreateSnapshot, timeElapsed, dataCopy, snapshotId,
          lastCheckpointId_, nextUuid, journalExists, journal, snapshotFile,
          backups, restarts, lastStop, acked, expected, inflight,
          unitCall, unitResult, fileLockMap, fileLockMutex, lockFile,
          filesCreated, flocks, lockPc, lockRequest, guards,
          filePc, fileLocal, files, journalMutex_, snapshotMutex_,
          sharedHolders>>

\* ------------------------------------------------------------ map helpers
Has(m, k) == k \in DOMAIN m

Put(m, k, v) == [u \in (DOMAIN m) \cup {k} |-> IF u = k THEN v ELSE m[u]]

Erase(m, k) == [u \in (DOMAIN m) \ {k} |-> m[u]]

Lookup(m, k) == IF Has(m, k) THEN m[k] ELSE NoData

\* --------------------------------------------------------- journal entries
Entry(t, u, d) == [type |-> t, uuid |-> u, data |-> d]

NoEntry == Entry("NONE", NoUuid, "")

\* JournalEntry::deserialize: the regex accepts a line iff its type field is
\* one of the four operation names and the identifier field is not empty.
deserialize(line) ==
    IF line.type \in OPERATION_TYPE_STRINGS /\ line.uuid # NoUuid
    THEN line ELSE NoEntry

\* A validation that accepts every file.
isJournalValidAlways(lines) == TRUE

\* JournalManager::isJournalValid over the lines of an existing file.
isJournalValid(lines) ==
    \A i \in 1..Len(lines) : deserialize(lines[i]) # NoEntry

\* An applyOperation whose UPDATE inserts an identifier that is absent.
applyOperationUpsert(entry, store) ==
    CASE entry.type \in {"INSERT", "UPDATE"} ->
            [ok |-> TRUE, store |-> Put(store, entry.uuid, entry.data)]
      [] entry.type = "REMOVE" ->
            IF ~Has(store, entry.uuid)
            THEN [ok |-> FALSE, store |-> store]
            ELSE [ok |-> TRUE, store |-> Erase(store, entry.uuid)]
      [] OTHER -> [ok |-> TRUE, store |-> store]

\* JournalManager::applyOperation: the store after the entry, and whether the
\* entry applied.
applyOperation(entry, store) ==
    CASE entry.type = "INSERT" ->
            [ok |-> TRUE, store |-> Put(store, entry.uuid, entry.data)]
      [] entry.type = "UPDATE" ->
            IF ~Has(store, entry.uuid)
            THEN [ok |-> FALSE, store |-> store]
            ELSE [ok |-> TRUE, store |-> Put(store, entry.uuid, entry.data)]
      [] entry.type = "REMOVE" ->
            IF ~Has(store, entry.uuid)
            THEN [ok |-> FALSE, store |-> store]
            ELSE [ok |-> TRUE, store |-> Erase(store, entry.uuid)]
      [] OTHER -> [ok |-> TRUE, store |-> store]

\* The loop of JournalManager::replayJournal from line i on.  cp = NoUuid is
\* "no start-after checkpoint"; found is foundCheckpoint.
RECURSIVE replayLoop(_, _, _, _, _)
replayLoop(lines, i, store, cp, found) ==
    IF i > Len(lines) THEN [store |-> store, found |-> found]
    ELSE LET entry == deserialize(lines[i]) IN
         IF entry = NoEntry
         THEN replayLoop(lines, i + 1, store, cp, found)
         ELSE IF cp # NoUuid /\ entry.type = "CHECKPOINT"
         THEN replayLoop(lines, i + 1, store, cp, found \/ entry.uuid = cp)
         ELSE IF cp # NoUuid /\ ~found
         THEN replayLoop(lines, i + 1, store, cp, found)
         ELSE replayLoop(lines, i + 1, applyOperation(entry, store).store,
                         cp, found)

\* A replayJournal that applies the entries before the checkpoint as well.
replayJournalFromStart(store, lines, cp) ==
    LET r == replayLoop(lines, 1, store, cp, FALSE) IN
    [ok |-> (cp = NoUuid \/ r.found),
     store |-> replayLoop(lines, 1, store, NoUuid, FALSE).store]

\* JournalManager::replayJournal: [ok, store].
replayJournal(store, lines, cp) ==
    LET r == replayLoop(lines, 1, store, cp, FALSE) IN
    [ok |-> (cp = NoUuid \/ r.found), store |-> r.store]

\* The scan of JournalManager::getLastCheckpointId: identifier of the last
\* CHECKPOINT line that parses, NoUuid if there is none.
RECURSIVE scanLastCheckpoint(_, _, _)
scanLastCheckpoint(lines, i, last) ==
    IF i > Len(lines) THEN last
    ELSE LET entry == deserialize(lines[i]) IN
         scanLastCheckpoint(lines, i + 1,
             IF entry # NoEntry /\ entry.type = "CHECKPOINT"
             THEN entry.uuid ELSE last)

\* JournalManager::getLastCheckpointId: the cached value if there is one,
\* otherwise the scan.
getLastCheckpointId(cache, lines) ==
    IF cache # NoUuid THEN cache ELSE scanLastCheckpoint(lines, 1, NoUuid)

\* ----------------------------------------------------------- generateUuid
\* A 64-bit value is written as its four 16-bit parts, lowest first.
Word64(w0, w1, w2, w3) == <<w0, w1, w2, w3>>

HexDigits ==
    <<"0", "1", "2", "3", "4", "5", "6", "7",
      "8", "9", "a", "b", "c", "d", "e", "f">>

\* operator<< under std::hex, std::setfill('0') and std::setw(width): at
\* least width digits, more if the value needs them.
RECURSIVE Hex(_, _)
Hex(n, width) ==
    IF n < 16 /\ width <= 1 THEN HexDigits[n + 1]
    ELSE Hex(n \div 16, width - 1) \o HexDigits[(n % 16) + 1]

\* count & 0xFFF takes one of COUNTER_PERIOD values.
COUNTER_PERIOD == 4096

\* UuidGenerator::generateUuid for the clock reading, the value rng()
\* returned and the value fetch_add returned.
generateUuid(timestamp, random, count) ==
    Hex(timestamp[2], 4) \o Hex(timestamp[1], 4) \o "-"
    \o Hex(timestamp[3], 4) \o "-"
    \o "4" \o Hex(count % COUNTER_PERIOD, 3) \o "-"
    \o Hex(8 + (random[1] % 4), 1) \o Hex((random[1] \div 4) % 4096, 3) \o "-"
    \o Hex((random[3] \div 16384) + (random[4] % 16384) * 4, 4)
    \o Hex((random[2] \div 16384) + (random[3] % 16384) * 4, 4)
    \o Hex((random[1] \div 16384) + (random[2] % 16384) * 4, 4)

\* Clock readings: two that are 2^48 ticks apart.
Timestamps == {Word64(0, 0, 0, 0), Word64(0, 0, 0, 1)}

\* Values of rng(): two that differ in bit 14.
Randoms == {Word64(0, 0, 0, 0), Word64(16384, 0, 0, 0)}

\* ---------------------------------------------------------- snapshot codec
\* A snapshot file is a sequence of fields: the u32 count, then for every
\* pair a key field and a value field, each [len, bytes].  len is the u32
\* length prefix, bytes the payload that follows it.
Field(len, bytes) == [len |-> len, bytes |-> bytes]

\* std::string::size: every key and value of the model is one character.
SizeOf(bytes) == 1

RECURSIVE serializePairs(_, _)
serializePairs(m, keys) ==
    IF keys = {} THEN << >>
    ELSE LET k == CHOOSE x \in keys : TRUE IN
         <<Field(SizeOf(k), k), Field(SizeOf(m[k]), m[k])>>
             \o serializePairs(m, keys \ {k})

\* serializeMap
serializeMap(m) == <<Cardinality(DOMAIN m)>> \o serializePairs(m, DOMAIN m)

\* The loop of deserializeMap: n pairs still to read from position i.
RECURSIVE deserializeLoop(_, _, _, _)
deserializeLoop(buf, i, n, m) ==
    IF n = 0 THEN [ok |-> TRUE, map |-> m]
    ELSE IF i + 1 > Len(buf) THEN [ok |-> FALSE, map |-> EmptyMap]
    ELSE LET key == buf[i]
             value == buf[i + 1] IN
         IF key.len # SizeOf(key.bytes) \/ value.len # SizeOf(value.bytes)
         THEN [ok |-> FALSE, map |-> EmptyMap]
         ELSE deserializeLoop(buf, i + 2, n - 1,
                 IF Has(m, key.bytes) THEN m
                 ELSE Put(m, key.bytes, value.bytes))

\* deserializeMap: [ok, map]; ok = FALSE is std::nullopt.
deserializeMap(buf) ==
    IF Len(buf) = 0 THEN [ok |-> FALSE, map |-> EmptyMap]
    ELSE deserializeLoop(buf, 2, buf[1], EmptyMap)

NoSnapshotFile == [exists |-> FALSE, bytes |-> << >>, sid |-> NoUuid]

\* StorageManager::loadSnapshot preceded by the isFileReadable test of
\* loadFromDisk: [ok, map].
loadSnapshot(file) ==
    IF ~file.exists THEN [ok |-> FALSE, map |-> EmptyMap]
    ELSE deserializeMap(file.bytes)

\* A loadFromDisk that asks the journal for its last checkpoint whether or not
\* the snapshot was loaded.
loadFromDiskKeepsCheckpoint(file, lines) ==
    LET snap == loadSnapshot(file)
        start == getLastCheckpointId(NoUuid, lines)
        base == IF snap.ok THEN snap.map ELSE EmptyMap
    IN [store |-> replayJournal(base, lines, start).store,
        cache |-> start]

\* StorageManager::loadFromDisk on the files given: the map that is built and
\* the value the checkpoint cache is left with.
loadFromDisk(file, lines) ==
    LET snap == loadSnapshot(file)
        start == IF snap.ok THEN getLastCheckpointId(NoUuid, lines) ELSE NoUuid
        base == IF snap.ok THEN snap.map ELSE EmptyMap
    IN [store |-> replayJournal(base, lines, start).store,
        cache |-> start]

\* ------------------------------------------------------------------- state
\* No call made on a function or a JournalManager alone, and no result yet.
NoCall == [fn |-> "none"]

NoResult == [fn |-> "none"]

NoOp == Entry("NONE", NoUuid, "")

NoLock == ""

calls == <<pc, op, ret>>
memory == <<dataStore_, storageMutex_, operationsSinceLastSnapshot_,
            snapshotOperationsThreshold_, lastCheckpointId_>>
flags == <<snapshotRequested_, shutdownRequested_, shouldCreateSnapshot,
           timeElapsed>>
locals == <<dataCopy, snapshotId>>
disk == <<journalExists, journal, snapshotFile, backups>>
history == <<restarts, lastStop, acked, expected, inflight>>
fileLocks == <<fileLockMap, fileLockMutex, lockFile, filesCreated, flocks,
               lockPc, lockRequest, guards>>
stepMutexes == <<snapshotMutex_, sharedHolders>>
fileWrites == <<filePc, fileLocal, files, journalMutex_, stepMutexes>>
components == <<unitCall, unitResult, fileLocks, fileWrites>>
storage == <<phase, calls, memory, flags, locals, nextUuid, disk, history>>

\* ----------------------------------------------------------- FileLockGuard
\* One lock path, the threads of this process that take FileLockGuards on
\* it, and one other process that takes the same lock file with flock.  A
\* file descriptor is named by who opened it and the file it is open on; a
\* file is a number, and NoFile says that no file has the lock path's name.
\* An acquireFileLock call is a sequence of steps, each made holding
\* fileLockMutex, with pauseLock between them; the time-out of the TIMEOUT
\* strategy may be found elapsed at any test.
LockThreads == Users

OtherProcess == "other"

LockModes == {"EXCLUSIVE", "SHARED"}

LockWaitStrategies == {"STANDARD", "INSTANTLY", "TIMEOUT"}

NoFile == 0

Fd(owner, file) == [owner |-> owner, file |-> file]

\* LockInfo::LockInfo
LockInfo(fd, mode, threadId) ==
    [fd_ |-> fd, mode_ |-> mode, threadIds_ |-> <<threadId>>, refCount_ |-> 1]

\* fileLockMap.find(lockPathStr) == fileLockMap.end()
NoLockInfo == [mode_ |-> "NONE"]

NoRequest == [mode |-> "NONE"]

\* LockInfo::lockedByThread
lockedByThread(info, threadId) ==
    \E i \in 1..Len(info.threadIds_) : info.threadIds_[i] = threadId

\* LockInfo::incrementRefCount
incrementRefCount(info, threadId) ==
    [info EXCEPT !.refCount_ = @ + 1, !.threadIds_ = Append(@, threadId)]

\* LockInfo::decrementRefCount: the first occurrence of the thread goes.
decrementRefCount(info, threadId) ==
    LET ids == info.threadIds_
        at == CHOOSE i \in 1..Len(ids) :
                 ids[i] = threadId /\ \A j \in 1..(i - 1) : ids[j] # threadId
    IN  [info EXCEPT !.refCount_ = @ - 1,
                     !.threadIds_ = SubSeq(ids, 1, at - 1)
                                    \o SubSeq(ids, at + 1, Len(ids))]

\* LOCK_EX or LOCK_SH for the mode.
LockType(mode) == IF mode = "EXCLUSIVE" THEN "LOCK_EX" ELSE "LOCK_SH"

\* flock(fd, type | LOCK_NB) == 0: no other open file description holds a
\* conflicting lock on the same file.
FlockGranted(held, fd, type) ==
    \A l \in held :
        (l.fd.file = fd.file /\ l.fd # fd)
        => (type = "LOCK_SH" /\ l.type = "LOCK_SH")

\* fileLockMap.emplace(lockPathStr, info): nothing is inserted if the map
\* has an entry for the key.
emplace(map, info) == IF map = NoLockInfo THEN info ELSE map

\* No lock file, no lock taken and no acquireFileLock call in progress.
NoFileLocks ==
    /\ fileLockMap = NoLockInfo
    /\ fileLockMutex = NoLock
    /\ lockFile = NoFile
    /\ filesCreated = 0
    /\ flocks = {}
    /\ lockPc = [t \in LockThreads |-> "idle"]
    /\ lockRequest = [t \in LockThreads |-> NoRequest]
    /\ guards = [t \in LockThreads |-> << >>]

\* No file_utils or journal call in progress, and an empty directory for the
\* path written on its own.
NoLocal == [fn |-> "none"]

NoFiles == [n \in {} |-> << >>]

NoFileWrites ==
    /\ filePc = [t \in Threads |-> "idle"]
    /\ fileLocal = [t \in Threads |-> NoLocal]
    /\ files = NoFiles
    /\ journalMutex_ = NoLock
    /\ snapshotMutex_ = NoLock
    /\ sharedHolders = {}

\* The members of a StorageManager that was just constructed, or is gone.
VolatileReset ==
    /\ op' = [t \in Threads |-> NoOp]
    /\ ret' = [t \in Threads |-> "none"]
    /\ storageMutex_' = NoLock
    /\ operationsSinceLastSnapshot_' = 0
    /\ snapshotOperationsThreshold_' = DefaultOperationsThreshold
    /\ snapshotRequested_' = FALSE
    /\ shutdownRequested_' = FALSE
    /\ shouldCreateSnapshot' = FALSE
    /\ timeElapsed' = FALSE
    /\ dataCopy' = [t \in Threads |-> EmptyMap]
    /\ snapshotId' = [t \in Threads |-> NoUuid]

\* No StorageManager, no snapshot file and no backups: everything but the
\* journal file.
NoStorageManager ==
    /\ phase = "closed"
    /\ pc = [t \in Threads |-> IF t = SnapshotThread THEN "off" ELSE "idle"]
    /\ op = [t \in Threads |-> NoOp]
    /\ ret = [t \in Threads |-> "none"]
    /\ dataStore_ = EmptyMap
    /\ storageMutex_ = NoLock
    /\ operationsSinceLastSnapshot_ = 0
    /\ snapshotOperationsThreshold_ = DefaultOperationsThreshold
    /\ snapshotRequested_ = FALSE
    /\ shutdownRequested_ = FALSE
    /\ shouldCreateSnapshot = FALSE
    /\ timeElapsed = FALSE
    /\ dataCopy = [t \in Threads |-> EmptyMap]
    /\ snapshotId = [t \in Threads |-> NoUuid]
    /\ lastCheckpointId_ = NoUuid
    /\ nextUuid = 1
    /\ snapshotFile = NoSnapshotFile
    /\ backups = << >>
    /\ restarts = 0
    /\ lastStop = "none"
    /\ acked = EmptyMap
    /\ expected = EmptyMap
    /\ inflight = NoEntry

\* An empty data directory and no StorageManager.
EmptyDirectory ==
    /\ NoStorageManager
    /\ journalExists = FALSE
    /\ journal = << >>

\* Nothing constructed and no call made yet.
Init ==
    /\ EmptyDirectory
    /\ unitCall = NoCall
    /\ unitResult = NoResult
    /\ NoFileLocks
    /\ NoFileWrites

\* ------------------------------------------------------------ construction
\* A constructor that goes on to rewrite the journal when createFileBackup
\* failed.
JournalManagerForgetsBackup(exists, lines, oldBackups, backupOk, writeOk) ==
    LET valid == exists /\ isJournalValid(lines)
        needBackup == exists /\ ~valid
        needToRecrate == ~exists \/ ~valid
        backedUp == needBackup /\ backupOk
        throws == needToRecrate /\ ~writeOk
    IN  [throws |-> throws,
         exists |-> exists \/ ~throws,
         lines |-> IF needToRecrate /\ ~throws THEN << >> ELSE lines,
         backups |-> IF backedUp THEN Append(oldBackups, lines)
                     ELSE oldBackups]

\* JournalManager::JournalManager on the journal file given.  backupOk and
\* writeOk are the outcomes of createFileBackup and of the atomicFileWrite
\* of the header.  The result says whether the constructor throws, and what
\* the journal file and the backups are afterwards.
JournalManager(exists, lines, oldBackups, backupOk, writeOk) ==
    LET valid == exists /\ isJournalValid(lines)
        needBackup == exists /\ ~valid
        needToRecrate == ~exists \/ ~valid
        backedUp == needBackup /\ backupOk
        throws == (needBackup /\ ~backupOk) \/ (needToRecrate /\ ~writeOk)
    IN  [throws |-> throws,
         exists |-> exists \/ ~throws,
         lines |-> IF needToRecrate /\ ~throws THEN << >> ELSE lines,
         backups |-> IF backedUp THEN Append(oldBackups, lines)
                     ELSE oldBackups]

\* StorageManager::StorageManager: the JournalManager member is constructed
\* first, then loadFromDisk fills the map and the snapshot thread starts.
Construct ==
    /\ phase \in {"closed", "failed"}
    /\ restarts <= MaxRestarts
    /\ \E backupOk \in BOOLEAN, writeOk \in BOOLEAN :
        LET jm == JournalManager(journalExists, journal, backups,
                                 backupOk, writeOk)
            loaded == loadFromDisk(snapshotFile, jm.lines)
        IN  /\ restarts' = restarts + 1
            /\ journalExists' = jm.exists
            /\ journal' = jm.lines
            /\ backups' = jm.backups
            /\ IF jm.throws
               THEN /\ phase' = "failed"
                    /\ UNCHANGED <<pc, dataStore_, lastCheckpointId_, acked,
                                   expected, inflight>>
               ELSE /\ phase' = "running"
                    /\ dataStore_' = loaded.store
                    /\ lastCheckpointId_' = loaded.cache
                    /\ pc' = [pc EXCEPT ![SnapshotThread] = "loop"]
                    /\ acked' = loaded.store
                    /\ expected' = EmptyMap
                    /\ inflight' = NoEntry
    /\ UNCHANGED <<components, op, ret, storageMutex_, operationsSinceLastSnapshot_,
                   snapshotOperationsThreshold_, flags, locals, nextUuid,
                   snapshotFile, lastStop>>

\* ----------------------------------------------------------- storage mutex
\* Calls that are past their guard and will still append a journal line or
\* take an identifier: the bounds are reserved when such a call starts.
WillAppend == {t \in Threads : pc[t] \in {"s_copy", "s_write", "s_ckpt"}}

WillGenerate == {t \in Threads : pc[t] = "s_copy"}

JournalRoom == Len(journal) + Cardinality(WillAppend) < MaxJournal

UuidRoom == nextUuid + Cardinality(WillGenerate) <= MaxUuid

\* An exclusive lock that a createSnapshot in progress keeps out, as if the
\* shared lock of its copy were held until it returns.
CanLockExclusiveAfterSnapshot ==
    /\ storageMutex_ = NoLock
    /\ \A t \in Threads : pc[t] \notin {"s_write", "s_ckpt", "s_reset"}

\* std::unique_lock<std::shared_mutex> can be taken.  Shared locks are taken
\* and dropped inside one step (get, the copy of createSnapshot), so only the
\* exclusive holder is state.
CanLockExclusive == storageMutex_ = NoLock

\* A shared lock that is granted while a writer holds the mutex.
CanLockSharedAlways == TRUE

\* std::shared_lock<std::shared_mutex> can be taken.
CanLockShared == storageMutex_ = NoLock

\* --------------------------------------------------------------- mutations
\* A writeOperation that reports success whatever safeFileAppend returned.
writeOperationUnchecked(lines, entry, ok) ==
    [ok |-> TRUE, lines |-> IF ok THEN Append(lines, entry) ELSE lines]

\* JournalManager::writeOperation: safeFileAppend either appends the
\* serialized line or fails and leaves the file as it was; an empty
\* identifier is refused.
writeOperation(lines, entry, ok) ==
    IF entry.uuid = NoUuid \/ ~ok
    THEN [ok |-> FALSE, lines |-> lines]
    ELSE [ok |-> TRUE, lines |-> Append(lines, entry)]

\* The part of insert, update and remove from the journal write to the first
\* return: a failed write returns failure, a successful one goes on to the
\* map holding the exclusive lock.
WriteThenGo(t, call, ok) ==
    LET w == writeOperation(journal, call, ok) IN
    /\ op' = [op EXCEPT ![t] = call]
    /\ journal' = w.lines
    /\ IF w.ok
       THEN /\ storageMutex_' = t
            /\ inflight' = call
            /\ pc' = [pc EXCEPT ![t] = "apply"]
            /\ ret' = ret
       ELSE /\ storageMutex_' = storageMutex_
            /\ inflight' = inflight
            /\ pc' = [pc EXCEPT ![t] = "returned"]
            /\ ret' = [ret EXCEPT ![t] =
                          IF call.type = "INSERT" THEN "nullopt" ELSE "false"]

\* insert up to the journal write: exclusive lock, generateUuid (uuid is what
\* it returned), writeInsert.
InsertAs(t, d, uuid) ==
    /\ phase = "running" /\ pc[t] = "idle"
    /\ CanLockExclusive
    /\ nextUuid' = nextUuid + 1
    /\ \E ok \in BOOLEAN : WriteThenGo(t, Entry("INSERT", uuid, d), ok)
    /\ UNCHANGED <<components, phase, dataStore_, operationsSinceLastSnapshot_,
                   snapshotOperationsThreshold_, lastCheckpointId_, flags,
                   locals, journalExists, snapshotFile, backups, restarts,
                   lastStop, acked, expected>>

\* insert with the identifier written as the number of the generateUuid call
\* that returned it: fewer than COUNTER_PERIOD calls are made in one behaviour
\* and the counter field alone tells their identifiers apart.
Insert(t, d) ==
    /\ JournalRoom /\ UuidRoom
    /\ InsertAs(t, d, ToString(nextUuid))

\* insert with the identifier generateUuid builds from the clock reading, the
\* random draw and the counter.  Of every COUNTER_PERIOD calls the first
\* MaxUuid are taken one by one.
InsertGenerated(t, d, timestamp, random) ==
    /\ Len(journal) < MaxJournal
    /\ (nextUuid - 1) % COUNTER_PERIOD < MaxUuid
    /\ (nextUuid - 1) \div COUNTER_PERIOD <= MaxWraps
    /\ InsertAs(t, d, generateUuid(timestamp, random, nextUuid - 1))

\* A run of insert calls whose journal append fails, up to the call that
\* brings the counter to the next multiple of COUNTER_PERIOD: each takes an
\* identifier, returns nullopt and changes nothing else.
FailingInserts ==
    /\ phase = "running" /\ \A t \in Users : pc[t] = "idle"
    /\ CanLockExclusive
    /\ (nextUuid - 1) \div COUNTER_PERIOD < MaxWraps
    /\ nextUuid' = (((nextUuid - 1) \div COUNTER_PERIOD) + 1) * COUNTER_PERIOD + 1
    /\ UNCHANGED <<components, phase, calls, memory, flags, locals, disk, history>>

\* update and remove without the existence test.
ModifyUnchecked(t, call) ==
    /\ phase = "running" /\ pc[t] = "idle"
    /\ CanLockExclusive /\ JournalRoom
    /\ \E ok \in BOOLEAN : WriteThenGo(t, call, ok)
    /\ UNCHANGED <<components, phase, dataStore_, operationsSinceLastSnapshot_,
                   snapshotOperationsThreshold_, lastCheckpointId_, flags,
                   locals, nextUuid, journalExists, snapshotFile, backups,
                   restarts, lastStop, acked, expected>>

\* update and remove up to the journal write: exclusive lock, existence
\* test (an absent identifier returns false), writeUpdate / writeRemove.
Modify(t, call) ==
    /\ phase = "running" /\ pc[t] = "idle"
    /\ CanLockExclusive
    /\ IF ~Has(dataStore_, call.uuid)
       THEN /\ op' = [op EXCEPT ![t] = call]
            /\ pc' = [pc EXCEPT ![t] = "returned"]
            /\ ret' = [ret EXCEPT ![t] = "false"]
            /\ UNCHANGED <<storageMutex_, journal, inflight>>
       ELSE /\ JournalRoom
            /\ \E ok \in BOOLEAN : WriteThenGo(t, call, ok)
    /\ UNCHANGED <<components, phase, dataStore_, operationsSinceLastSnapshot_,
                   snapshotOperationsThreshold_, lastCheckpointId_, flags,
                   locals, nextUuid, journalExists, snapshotFile, backups,
                   restarts, lastStop, acked, expected>>

Update(t, u, d) == Modify(t, Entry("UPDATE", u, d))

Remove(t, u) == Modify(t, Entry("REMOVE", u, ""))

\* A remove that leaves the entry in dataStore_.
mutateKeepsRemoved(store, call) ==
    IF call.type = "REMOVE" THEN store
    ELSE Put(store, call.uuid, call.data)

\* The statement that changes dataStore_ in insert, update and remove.
mutate(store, call) ==
    IF call.type = "REMOVE" THEN Erase(store, call.uuid)
    ELSE Put(store, call.uuid, call.data)

\* notifyOperation: the counter after the operation, and whether
\* requestSnapshotAsync is called.
\* A notifyOperation that counts and never requests.
notifyOperationSilent(count, threshold) ==
    [count |-> count + 1, request |-> FALSE]

notifyOperation(count, threshold) ==
    [count |-> count + 1, request |-> count + 1 >= threshold]

\* The rest of insert, update and remove: change the map, notifyOperation,
\* return success and drop the lock.
ApplyToMap(t) ==
    /\ phase = "running" /\ pc[t] = "apply"
    /\ LET n == notifyOperation(operationsSinceLastSnapshot_,
                                snapshotOperationsThreshold_)
       IN /\ dataStore_' = mutate(dataStore_, op[t])
          /\ operationsSinceLastSnapshot_' = n.count
          /\ snapshotRequested_' = (snapshotRequested_ \/ n.request)
    /\ pc' = [pc EXCEPT ![t] = "returned"]
    /\ ret' = [ret EXCEPT ![t] =
                  IF op[t].type = "INSERT" THEN op[t].uuid ELSE "true"]
    /\ storageMutex_' = NoLock
    /\ acked' = dataStore_'
    /\ inflight' = NoEntry
    /\ UNCHANGED <<components, phase, op, snapshotOperationsThreshold_, lastCheckpointId_,
                   shutdownRequested_, shouldCreateSnapshot, timeElapsed,
                   locals, nextUuid,
                   disk, restarts, lastStop, expected>>

\* --------------------------------------------------------------------- get
\* get: shared lock, lookup, return.
Get(t, u) ==
    /\ phase = "running" /\ pc[t] = "idle"
    /\ CanLockShared
    /\ op' = [op EXCEPT ![t] = Entry("GET", u, "")]
    /\ ret' = [ret EXCEPT ![t] = Lookup(dataStore_, u)]
    /\ pc' = [pc EXCEPT ![t] = "returned"]
    /\ UNCHANGED <<components, phase, memory, flags, locals, nextUuid, disk, history>>

\* The caller has the result of its call.
Done(t) ==
    /\ phase = "running" /\ pc[t] = "returned"
    /\ pc' = [pc EXCEPT ![t] = "idle"]
    /\ op' = [op EXCEPT ![t] = NoOp]
    /\ ret' = [ret EXCEPT ![t] = "none"]
    /\ UNCHANGED <<components, phase, memory, flags, locals, nextUuid, disk, history>>

\* ---------------------------------------------------------- createSnapshot
\* createSnapshot: copy dataStore_ under the shared lock, then generate the
\* snapshot identifier.
copyAndName(t) ==
    /\ CanLockShared
    /\ dataCopy' = [dataCopy EXCEPT ![t] = dataStore_]
    /\ snapshotId' = [snapshotId EXCEPT ![t] = ToString(nextUuid)]
    /\ nextUuid' = nextUuid + 1
    /\ pc' = [pc EXCEPT ![t] = "s_write"]

\* createSnapshot called by a user thread, up to the snapshot identifier.
CreateSnapshot(t) ==
    /\ phase = "running" /\ pc[t] = "idle"
    /\ JournalRoom /\ UuidRoom
    /\ copyAndName(t)
    /\ op' = [op EXCEPT ![t] = Entry("SNAPSHOT", NoUuid, "")]
    /\ UNCHANGED <<components, phase, ret, memory, flags, disk, history>>

\* createSnapshot called by the snapshot thread or the destructor, up to the
\* snapshot identifier.
CopyMap(t) ==
    /\ phase \in {"running", "stopping"} /\ pc[t] = "s_copy"
    /\ copyAndName(t)
    /\ UNCHANGED <<components, phase, op, ret, memory, flags, disk, history>>

\* Where createSnapshot returns to: a user thread gets the result, the
\* snapshot thread goes back to the top of its loop, the destructor goes on
\* to its end.  The locals of the call are gone.
Returned(t, result) ==
    /\ pc' = [pc EXCEPT ![t] = IF t = SnapshotThread THEN "loop"
                               ELSE IF t = MainThread THEN "done"
                               ELSE "returned"]
    /\ ret' = [ret EXCEPT ![t] = IF t \in Users THEN result ELSE "none"]
    /\ dataCopy' = [dataCopy EXCEPT ![t] = EmptyMap]
    /\ snapshotId' = [snapshotId EXCEPT ![t] = NoUuid]

\* A createSnapshot that goes on to the checkpoint whatever writeSnapshotToDisk
\* returned.
WriteSnapshotIgnoresFailure(t) ==
    /\ phase \in {"running", "stopping"} /\ pc[t] = "s_write"
    /\ \E ok \in BOOLEAN :
        /\ snapshotFile' = IF ok THEN [exists |-> TRUE,
                                      bytes |-> serializeMap(dataCopy[t]),
                                      sid |-> snapshotId[t]]
                           ELSE snapshotFile
        /\ pc' = [pc EXCEPT ![t] = "s_ckpt"]
        /\ UNCHANGED <<ret, locals>>
    /\ UNCHANGED <<components, phase, op, memory, flags, nextUuid, journalExists, journal,
                   backups, history>>

\* writeSnapshotToDisk: atomicFileWrite replaces the snapshot file or fails
\* and leaves it as it was.
WriteSnapshot(t) ==
    /\ phase \in {"running", "stopping"} /\ pc[t] = "s_write"
    /\ \E ok \in BOOLEAN :
        IF ok
        THEN /\ snapshotFile' = [exists |-> TRUE,
                                 bytes |-> serializeMap(dataCopy[t]),
                                 sid |-> snapshotId[t]]
             /\ pc' = [pc EXCEPT ![t] = "s_ckpt"]
             /\ UNCHANGED <<ret, locals>>
        ELSE /\ Returned(t, "false")
             /\ snapshotFile' = snapshotFile
    /\ UNCHANGED <<components, phase, op, memory, flags, nextUuid, journalExists, journal,
                   backups, history>>

\* writeCheckpoint: writeOperation for a CHECKPOINT entry appends the line and
\* caches the identifier under journalMutex_.
WriteCheckpoint(t) ==
    /\ phase \in {"running", "stopping"} /\ pc[t] = "s_ckpt"
    /\ \E ok \in BOOLEAN :
        LET w == writeOperation(journal,
                                Entry("CHECKPOINT", snapshotId[t], ""), ok) IN
        /\ journal' = w.lines
        /\ IF w.ok
           THEN /\ lastCheckpointId_' = snapshotId[t]
                /\ pc' = [pc EXCEPT ![t] = "s_reset"]
                /\ UNCHANGED <<ret, locals>>
           ELSE /\ Returned(t, "false")
                /\ lastCheckpointId_' = lastCheckpointId_
    /\ UNCHANGED <<components, phase, op, dataStore_, storageMutex_,
                   operationsSinceLastSnapshot_, snapshotOperationsThreshold_,
                   flags, nextUuid, journalExists, snapshotFile, backups,
                   history>>

\* createSnapshot: reset the operation counter (and the snapshot time) and
\* return true.
ResetCounters(t) ==
    /\ phase \in {"running", "stopping"} /\ pc[t] = "s_reset"
    /\ operationsSinceLastSnapshot_' = 0
    /\ timeElapsed' = FALSE
    /\ Returned(t, "true")
    /\ UNCHANGED <<components, phase, op, dataStore_, storageMutex_,
                   snapshotOperationsThreshold_, lastCheckpointId_,
                   snapshotRequested_, shutdownRequested_,
                   shouldCreateSnapshot, nextUuid, disk, history>>

\* requestSnapshotAsync.
RequestSnapshotAsync(t) ==
    /\ phase = "running" /\ pc[t] = "idle"
    /\ snapshotRequested_' = TRUE
    /\ UNCHANGED <<components, phase, calls, memory, shutdownRequested_,
                   shouldCreateSnapshot, timeElapsed, locals, nextUuid, disk,
                   history>>

\* setSnapshotOperationsThreshold.
SetSnapshotOperationsThreshold(t, n) ==
    /\ phase = "running" /\ pc[t] = "idle"
    /\ snapshotOperationsThreshold_' = n
    /\ op' = [op EXCEPT ![t] = Entry("THRESHOLD", NoUuid, "")]
    /\ ret' = [ret EXCEPT ![t] = "none"]
    /\ pc' = [pc EXCEPT ![t] = "returned"]
    /\ UNCHANGED <<components, phase, dataStore_, storageMutex_,
                   operationsSinceLastSnapshot_, lastCheckpointId_, flags,
                   locals, nextUuid, disk, history>>

\* --------------------------------------------------------- snapshot thread
\* A snapshot thread that clears the request flag without looking at it.
WakeForgets ==
    /\ phase \in {"running", "stopping"} /\ pc[SnapshotThread] = "loop"
    /\ IF shutdownRequested_
       THEN /\ pc' = [pc EXCEPT ![SnapshotThread] = "exited"]
            /\ UNCHANGED <<snapshotRequested_, shouldCreateSnapshot>>
       ELSE /\ pc' = [pc EXCEPT ![SnapshotThread] = "decide"]
            /\ shouldCreateSnapshot' = FALSE
            /\ snapshotRequested_' = FALSE
    /\ UNCHANGED <<components, phase, op, ret, memory, shutdownRequested_, timeElapsed,
                   locals, nextUuid, disk, history>>

\* snapshotThreadFunction: the loop condition, then wait_for returns
\* (request, shutdown or timeout) and the request flag is taken under
\* snapshotMutex_.
Wake ==
    /\ phase \in {"running", "stopping"} /\ pc[SnapshotThread] = "loop"
    /\ IF shutdownRequested_
       THEN /\ pc' = [pc EXCEPT ![SnapshotThread] = "exited"]
            /\ UNCHANGED <<snapshotRequested_, shouldCreateSnapshot>>
       ELSE /\ pc' = [pc EXCEPT ![SnapshotThread] = "decide"]
            /\ shouldCreateSnapshot' = snapshotRequested_
            /\ snapshotRequested_' = FALSE
    /\ UNCHANGED <<components, phase, op, ret, memory, shutdownRequested_, timeElapsed,
                   locals, nextUuid, disk, history>>

\* The clock passes lastSnapshotTime_ plus the time threshold.  Only the
\* snapshot thread's decision reads the clock, so the moment is taken right
\* before that read.
Tick ==
    /\ phase \in {"running", "stopping"} /\ pc[SnapshotThread] = "decide"
    /\ ~timeElapsed
    /\ timeElapsed' = TRUE
    /\ UNCHANGED <<components, phase, calls, memory, snapshotRequested_,
                   shutdownRequested_, shouldCreateSnapshot, locals, nextUuid,
                   disk, history>>

\* A snapshot thread that calls createSnapshot every time it wakes.
DecideEager ==
    /\ phase \in {"running", "stopping"} /\ pc[SnapshotThread] = "decide"
    /\ JournalRoom /\ UuidRoom
    /\ pc' = [pc EXCEPT ![SnapshotThread] = "s_copy"]
    /\ shouldCreateSnapshot' = FALSE
    /\ UNCHANGED <<components, phase, op, ret, memory, snapshotRequested_,
                   shutdownRequested_, timeElapsed, locals, nextUuid, disk,
                   history>>

\* snapshotThreadFunction: call createSnapshot if it was requested, or if
\* the time threshold has passed and operations were counted.
Decide ==
    /\ phase \in {"running", "stopping"} /\ pc[SnapshotThread] = "decide"
    /\ IF shouldCreateSnapshot
          \/ (timeElapsed /\ operationsSinceLastSnapshot_ > 0)
       THEN /\ JournalRoom /\ UuidRoom
            /\ pc' = [pc EXCEPT ![SnapshotThread] = "s_copy"]
       ELSE pc' = [pc EXCEPT ![SnapshotThread] = "loop"]
    /\ shouldCreateSnapshot' = FALSE
    /\ UNCHANGED <<components, phase, op, ret, memory, snapshotRequested_,
                   shutdownRequested_, timeElapsed, locals, nextUuid, disk,
                   history>>

\* ------------------------------------------------------------- destruction
UsersIdle == \A t \in Users : pc[t] = "idle"

\* ~StorageManager: set the shutdown flag and notify the snapshot thread.
BeginDestroy ==
    /\ phase = "running" /\ UsersIdle /\ pc[MainThread] = "idle"
    /\ phase' = "stopping"
    /\ shutdownRequested_' = TRUE
    /\ pc' = [pc EXCEPT ![MainThread] = "join"]
    /\ UNCHANGED <<components, op, ret, memory, snapshotRequested_, shouldCreateSnapshot,
                   timeElapsed,
                   locals, nextUuid, disk, history>>

\* A destructor that does not wait for the snapshot thread.
JoinWithoutWaiting ==
    /\ phase = "stopping" /\ pc[MainThread] = "join"
    /\ JournalRoom /\ UuidRoom
    /\ pc' = [pc EXCEPT ![MainThread] = "s_copy"]
    /\ UNCHANGED <<components, phase, op, ret, memory, flags, locals, nextUuid, disk,
                   history>>

\* ~StorageManager: join the snapshot thread, then call createSnapshot.
Join ==
    /\ phase = "stopping" /\ pc[MainThread] = "join"
    /\ pc[SnapshotThread] = "exited"
    /\ JournalRoom /\ UuidRoom
    /\ pc' = [pc EXCEPT ![MainThread] = "s_copy"]
    /\ UNCHANGED <<components, phase, op, ret, memory, flags, locals, nextUuid, disk,
                   history>>

\* The process image is gone: no thread, no map, no cache.
Stopped ==
    /\ phase' = "closed"
    /\ pc' = [t \in Threads |-> IF t = SnapshotThread THEN "off" ELSE "idle"]
    /\ dataStore_' = EmptyMap
    /\ lastCheckpointId_' = NoUuid
    /\ acked' = EmptyMap
    /\ VolatileReset

\* ~StorageManager returns.
FinishDestroy ==
    /\ phase = "stopping" /\ pc[MainThread] = "done"
    /\ Stopped
    /\ lastStop' = "clean"
    /\ expected' = dataStore_
    /\ inflight' = NoEntry
    /\ UNCHANGED <<components, nextUuid, disk, restarts>>

\* The process stops abruptly between two steps: memory is lost, the files
\* stay as they are.
Crash ==
    /\ phase \in {"running", "stopping"}
    /\ Stopped
    /\ lastStop' = "crash"
    /\ expected' = acked
    /\ UNCHANGED <<components, nextUuid, disk, restarts, inflight>>

\* ----------------------------------------------------------- specification
\* The life of a data directory used by one client thread: construction, the
\* client's calls, the snapshot thread, destruction, abrupt stops, reopening.
OneUser == {"u1"}

Next ==
    \/ Construct
    \/ \E t \in OneUser, d \in Data : Insert(t, d)
    \/ \E t \in OneUser, u \in Uuids, d \in Data : Update(t, u, d)
    \/ \E t \in OneUser, u \in Uuids : Remove(t, u)
    \/ \E t \in OneUser : ApplyToMap(t)
    \/ \E t \in OneUser, u \in Uuids : Get(t, u)
    \/ \E t \in OneUser : Done(t)
    \/ \E t \in OneUser : CreateSnapshot(t)
    \/ \E t \in {SnapshotThread, MainThread} : CopyMap(t)
    \/ \E t \in Threads : WriteSnapshot(t)
    \/ \E t \in Threads : WriteCheckpoint(t)
    \/ \E t \in Threads : ResetCounters(t)
    \/ \E t \in OneUser : RequestSnapshotAsync(t)
    \/ Tick
    \/ Wake
    \/ Decide
    \/ BeginDestroy
    \/ Join
    \/ FinishDestroy
    \/ Crash

Spec == Init /\ [][Next]_vars

\* One StorageManager on an empty directory, called by two client threads
\* at once while the snapshot thread runs.
NextUsers ==
    \/ restarts = 0 /\ Construct
    \/ \E t \in Users, d \in Data : Insert(t, d)
    \/ \E t \in Users, u \in Uuids, d \in Data : Update(t, u, d)
    \/ \E t \in Users, u \in Uuids : Remove(t, u)
    \/ \E t \in Users : ApplyToMap(t)
    \/ \E t \in Users, u \in Uuids : Get(t, u)
    \/ \E t \in Users : Done(t)
    \/ CopyMap(SnapshotThread)
    \/ WriteSnapshot(SnapshotThread)
    \/ WriteCheckpoint(SnapshotThread)
    \/ ResetCounters(SnapshotThread)
    \/ Tick
    \/ Wake
    \/ Decide

SpecUsers == Init /\ [][NextUsers]_vars

\* A data directory left by earlier runs, handed to the constructor: the
\* journal is any sequence of at most MaxOpenLines lines, valid entries and
\* lines the entry regex rejects (a garbage line, a line cut short before its
\* third separator); the snapshot file is absent, decodable or not decodable.
GarbageLine == Entry("GARBAGE", "2", "b")

TornLine == Entry("INSERT", NoUuid, "")

OpenLines ==
    {Entry("INSERT", "1", "a"), Entry("INSERT", "2", "b"),
     Entry("UPDATE", "1", "b"), Entry("REMOVE", "2", ""),
     Entry("CHECKPOINT", "3", ""), GarbageLine, TornLine}

RECURSIVE SeqsUpTo(_, _)
SeqsUpTo(S, n) ==
    IF n = 0 THEN {<< >>}
    ELSE LET shorter == SeqsUpTo(S, n - 1) IN
         shorter \cup {Append(q, x) : q \in shorter, x \in S}

OpenSnapshots ==
    {NoSnapshotFile,
     [exists |-> TRUE, bytes |-> serializeMap(EmptyMap), sid |-> "3"],
     [exists |-> TRUE, bytes |-> serializeMap(Put(EmptyMap, "1", "a")),
      sid |-> "3"],
     [exists |-> TRUE, bytes |-> <<1, Field(SizeOf("1"), "1")>>, sid |-> "3"]}

InitOpen ==
    /\ phase = "closed"
    /\ pc = [t \in Threads |-> IF t = SnapshotThread THEN "off" ELSE "idle"]
    /\ op = [t \in Threads |-> NoOp]
    /\ ret = [t \in Threads |-> "none"]
    /\ dataStore_ = EmptyMap
    /\ storageMutex_ = NoLock
    /\ operationsSinceLastSnapshot_ = 0
    /\ snapshotOperationsThreshold_ = DefaultOperationsThreshold
    /\ snapshotRequested_ = FALSE
    /\ shutdownRequested_ = FALSE
    /\ shouldCreateSnapshot = FALSE
    /\ timeElapsed = FALSE
    /\ dataCopy = [t \in Threads |-> EmptyMap]
    /\ snapshotId = [t \in Threads |-> NoUuid]
    /\ lastCheckpointId_ = NoUuid
    /\ nextUuid = 1
    /\ journalExists \in BOOLEAN
    /\ journal \in (IF journalExists THEN SeqsUpTo(OpenLines, MaxOpenLines)
                    ELSE {<< >>})
    /\ snapshotFile \in OpenSnapshots
    /\ backups = << >>
    /\ restarts = 0
    /\ lastStop = "none"
    /\ acked = EmptyMap
    /\ expected = EmptyMap
    /\ inflight = NoEntry
    /\ unitCall = NoCall
    /\ unitResult = NoResult
    /\ NoFileLocks
    /\ NoFileWrites

NextOpen == Construct

SpecOpen == InitOpen /\ [][NextOpen]_vars

\* One StorageManager on an empty directory with one client thread, the
\* snapshot thread and the destructor, run under fair scheduling of every
\* thread that has a step to take.  Every createSnapshot attempt takes one
\* identifier and at most one journal line, so a step is taken only if the
\* attempts that are already due, and the destructor's, still fit the bounds.
AttemptsDue ==
    (IF phase # "closed" /\ pc[MainThread] \in {"idle", "join", "s_copy"}
     THEN 1 ELSE 0)
    + (IF snapshotRequested_
          /\ ~(shutdownRequested_ /\ pc[SnapshotThread] \in {"loop", "exited"})
       THEN 1 ELSE 0)
    + (IF \/ pc[SnapshotThread] = "s_copy"
          \/ pc[SnapshotThread] = "decide" /\ shouldCreateSnapshot
          \/ /\ timeElapsed /\ operationsSinceLastSnapshot_ > 0
             /\ pc[SnapshotThread] \in {"loop", "decide"}
             /\ ~(shutdownRequested_ /\ pc[SnapshotThread] = "loop")
       THEN 1 ELSE 0)

Fits ==
    /\ nextUuid - 1 + AttemptsDue <= MaxUuid
    /\ Len(journal) + AttemptsDue
          + Cardinality({t \in Threads : pc[t] \in {"s_write", "s_ckpt"}})
       <= MaxJournal

SnapshotThreadStep ==
    \/ Wake
    \/ Decide
    \/ CopyMap(SnapshotThread)
    \/ WriteSnapshot(SnapshotThread)
    \/ WriteCheckpoint(SnapshotThread)
    \/ ResetCounters(SnapshotThread)

DestructorStep ==
    \/ Join
    \/ CopyMap(MainThread)
    \/ WriteSnapshot(MainThread)
    \/ WriteCheckpoint(MainThread)
    \/ ResetCounters(MainThread)
    \/ FinishDestroy

CallInProgressStep ==
    \E t \in OneUser :
        \/ ApplyToMap(t)
        \/ WriteSnapshot(t)
        \/ WriteCheckpoint(t)
        \/ ResetCounters(t)
        \/ Done(t)

NextSnap ==
    \/ restarts = 0 /\ Construct
    \/ \E t \in OneUser, d \in Data : Insert(t, d) /\ Fits'
    \/ \E t \in OneUser, u \in Uuids, d \in Data : Update(t, u, d) /\ Fits'
    \/ \E t \in OneUser, u \in Uuids : Remove(t, u) /\ Fits'
    \/ \E t \in OneUser : CreateSnapshot(t) /\ Fits'
    \/ \E t \in OneUser : RequestSnapshotAsync(t) /\ Fits'
    \/ \E t \in OneUser, n \in 1..MaxThreshold :
          SetSnapshotOperationsThreshold(t, n) /\ Fits'
    \/ Tick /\ Fits'
    \/ CallInProgressStep /\ Fits'
    \/ SnapshotThreadStep /\ Fits'
    \/ BeginDestroy
    \/ DestructorStep /\ Fits'

SpecSnap ==
    /\ Init
    /\ [][NextSnap]_vars
    /\ WF_vars(CallInProgressStep /\ Fits')
    /\ WF_vars(SnapshotThreadStep /\ Fits')
    /\ WF_vars(DestructorStep /\ Fits')

\* One StorageManager on an empty directory whose client threads insert and
\* read back, with the identifiers generateUuid builds.
NextUuid ==
    \/ restarts = 0 /\ Construct
    \/ \E t \in Users, d \in Data, timestamp \in Timestamps,
          random \in Randoms : InsertGenerated(t, d, timestamp, random)
    \/ FailingInserts
    \/ \E t \in Users : ApplyToMap(t)
    \/ \E t \in Users : \E u \in DOMAIN dataStore_ : Get(t, u)
    \/ \E t \in Users : Done(t)

SpecUuid == Init /\ [][NextUuid]_vars

\* ------------------------------------------------------- journal line text
\* The text of a journal line, character by character.  A character is a
\* one-character string, the two line-break bytes are written LF and CR, and
\* the operation name that opens a line is one token.
FIELD_SEPARATOR == "|"

ESCAPE_CHAR == "\\"

LF == "LF"

CR == "CR"

Chars == {FIELD_SEPARATOR, ESCAPE_CHAR, LF, CR, "n", "r", "x"}

\* An escapeString that copies the escape character as it is.
RECURSIVE escapeStringKeepsBackslash(_)
escapeStringKeepsBackslash(str) ==
    IF str = << >> THEN << >>
    ELSE LET c == Head(str) IN
         (IF c = FIELD_SEPARATOR THEN <<ESCAPE_CHAR, c>>
          ELSE IF c = LF THEN <<ESCAPE_CHAR, "n">>
          ELSE IF c = CR THEN <<ESCAPE_CHAR, "r">>
          ELSE <<c>>) \o escapeStringKeepsBackslash(Tail(str))

\* escapeString
RECURSIVE escapeString(_)
escapeString(str) ==
    IF str = << >> THEN << >>
    ELSE LET c == Head(str) IN
         (IF c = FIELD_SEPARATOR \/ c = ESCAPE_CHAR THEN <<ESCAPE_CHAR, c>>
          ELSE IF c = LF THEN <<ESCAPE_CHAR, "n">>
          ELSE IF c = CR THEN <<ESCAPE_CHAR, "r">>
          ELSE <<c>>) \o escapeString(Tail(str))

\* The loop of unescapeString; escaped is its flag.
RECURSIVE unescapeLoop(_, _)
unescapeLoop(str, escaped) ==
    IF str = << >> THEN << >>
    ELSE LET c == Head(str) IN
         IF escaped
         THEN <<(IF c = "n" THEN LF ELSE IF c = "r" THEN CR ELSE c)>>
              \o unescapeLoop(Tail(str), FALSE)
         ELSE IF c = ESCAPE_CHAR THEN unescapeLoop(Tail(str), TRUE)
         ELSE <<c>> \o unescapeLoop(Tail(str), FALSE)

\* unescapeString
unescapeString(str) == unescapeLoop(str, FALSE)

\* A JournalEntry with the text of its fields.
TextEntry(t, u, ts, d) == [type |-> t, uuid |-> u, timestamp |-> ts, data |-> d]

NoTextEntry == [type |-> "NONE"]

\* A serialize that writes the data as it is.
serializeUnescaped(entry) ==
    <<entry.type, FIELD_SEPARATOR>> \o entry.uuid \o <<FIELD_SEPARATOR>>
    \o entry.timestamp \o <<FIELD_SEPARATOR>> \o entry.data \o <<LF>>

\* JournalEntry::serialize: TYPE|GUID|TIMESTAMP|DATA and a line feed.
serialize(entry) ==
    <<entry.type, FIELD_SEPARATOR>> \o entry.uuid \o <<FIELD_SEPARATOR>>
    \o entry.timestamp \o <<FIELD_SEPARATOR>> \o escapeString(entry.data)
    \o <<LF>>

\* Where the run of [^|] characters that starts at position i ends: the
\* position of the next separator, or one past the end of the line.
RECURSIVE fieldEnd(_, _)
fieldEnd(line, i) ==
    IF i > Len(line) \/ line[i] = FIELD_SEPARATOR THEN i
    ELSE fieldEnd(line, i + 1)

\* JournalEntry::deserialize on the text of a line: the whole line has to
\* match ^(INSERT|UPDATE|REMOVE|CHECKPOINT)\|([^|]+)\|([^|]+)\|(.*)$, where
\* the dot matches every character but the line breaks; the data is the
\* unescaped fourth group.  NoTextEntry is std::nullopt.
deserializeLine(line) ==
    IF \/ Len(line) < 2
       \/ line[1] \notin OPERATION_TYPE_STRINGS
       \/ line[2] # FIELD_SEPARATOR
    THEN NoTextEntry
    ELSE LET u == fieldEnd(line, 3)
             t == fieldEnd(line, u + 1)
             rest == SubSeq(line, t + 1, Len(line))
         IN  IF \/ u = 3 \/ u > Len(line)
                \/ t = u + 1 \/ t > Len(line)
                \/ \E i \in 1..Len(rest) : rest[i] \in {LF, CR}
             THEN NoTextEntry
             ELSE TextEntry(line[1], SubSeq(line, 3, u - 1),
                            SubSeq(line, u + 1, t - 1), unescapeString(rest))

\* The line as the journal readers hand it to deserialize: without the line
\* feed that ends it.
WithoutLineFeed(line) == SubSeq(line, 1, Len(line) - 1)

\* An identifier the journal format can carry: not empty, no separator and
\* no line break.
PlainId(u) ==
    u # << >> /\ \A i \in 1..Len(u) : u[i] \notin {FIELD_SEPARATOR, LF, CR}

\* Entries handed to serialize: every operation type, identifiers with and
\* without the characters the format reserves, and every data text of at
\* most MaxData characters.
LineIds ==
    {<<"x">>, <<"n", "r">>, <<ESCAPE_CHAR, "n">>,
     <<"x", FIELD_SEPARATOR, "x">>, <<"x", LF>>}

LineEntries ==
    {TextEntry(t, u, <<"x">>, d) :
        t \in OPERATION_TYPE_STRINGS, u \in LineIds,
        d \in SeqsUpTo(Chars, MaxData)}

InitLine ==
    /\ EmptyDirectory
    /\ unitCall \in {[fn |-> "serialize", entry |-> e] : e \in LineEntries}
    /\ unitResult = NoResult
    /\ NoFileLocks
    /\ NoFileWrites

\* entry.serialize()
Serialize ==
    /\ unitCall.fn = "serialize" /\ unitResult = NoResult
    /\ unitResult' = [fn |-> "serialize", line |-> serialize(unitCall.entry)]
    /\ UNCHANGED <<unitCall, storage, fileLocks, fileWrites>>

\* JournalEntry::deserialize of the line just serialized; the call keeps the
\* entry the line was made of.
Deserialize ==
    /\ unitCall.fn = "serialize" /\ unitResult.fn = "serialize"
    /\ unitCall' = [fn |-> "deserialize",
                    line |-> WithoutLineFeed(unitResult.line),
                    of |-> unitCall.entry]
    /\ unitResult' = [fn |-> "deserialize",
                      entry |-> deserializeLine(unitCall'.line)]
    /\ UNCHANGED <<storage, fileLocks, fileWrites>>

NextLine == Serialize \/ Deserialize

SpecLine == InitLine /\ [][NextLine]_vars

\* ----------------------------------------------------- snapshot file bytes
\* The snapshot encoding byte by byte.  A byte is a number in 0..255, a key
\* or a value is a sequence of bytes, and a position in the buffer is the
\* number of bytes before it.
\* A u32Append that writes the most significant byte first.
u32AppendBigEndian(x) ==
    <<(x \div 16777216) % 256, (x \div 65536) % 256, (x \div 256) % 256,
      x % 256>>

\* u32Append of serializeMap: the four bytes of the value in the byte order
\* of the build, least significant first.
u32Append(x) ==
    <<x % 256, (x \div 256) % 256, (x \div 65536) % 256,
      (x \div 16777216) % 256>>

\* readSize of deserializeMap: the uint32_t at position ptr.
readSize(buf, ptr) ==
    buf[ptr + 1] + (256 * buf[ptr + 2]) + (65536 * buf[ptr + 3])
    + (16777216 * buf[ptr + 4])

\* The loop of serializeMap over the pairs; order is the order in which the
\* unordered_map hands them out.
RECURSIVE appendPairs(_, _)
appendPairs(m, order) ==
    IF order = << >> THEN << >>
    ELSE LET k == Head(order) IN
         u32Append(Len(k)) \o k \o u32Append(Len(m[k])) \o m[k]
         \o appendPairs(m, Tail(order))

\* serializeMap, byte by byte.
serializeMapBytes(m, order) ==
    u32Append(Cardinality(DOMAIN m)) \o appendPairs(m, order)

NoMapBytes == [ok |-> FALSE, map |-> EmptyMap]

\* The loop of deserializeMap: n pairs still to read from position ptr;
\* emplace keeps the pair already there.
RECURSIVE readPairs(_, _, _, _)
readPairs(buf, ptr, n, map) ==
    IF n = 0 THEN [ok |-> TRUE, map |-> map]
    ELSE IF ptr + 4 > Len(buf) THEN NoMapBytes
    ELSE LET klen == readSize(buf, ptr)
             kptr == ptr + 4
         IN  IF kptr + klen > Len(buf) THEN NoMapBytes
             ELSE LET key == SubSeq(buf, kptr + 1, kptr + klen)
                      vsize == kptr + klen
                  IN  IF vsize + 4 > Len(buf) THEN NoMapBytes
                      ELSE LET vlen == readSize(buf, vsize)
                               vptr == vsize + 4
                           IN  IF vptr + vlen > Len(buf) THEN NoMapBytes
                               ELSE readPairs(buf, vptr + vlen, n - 1,
                                      IF Has(map, key) THEN map
                                      ELSE Put(map, key,
                                               SubSeq(buf, vptr + 1,
                                                      vptr + vlen)))

\* deserializeMap, byte by byte: [ok, map]; ok = FALSE is std::nullopt.
deserializeMapBytes(buf) ==
    IF 4 > Len(buf) THEN NoMapBytes
    ELSE readPairs(buf, 4, readSize(buf, 0), EmptyMap)

\* Keys and values handed to the encoding: the empty string and strings
\* holding the bytes a length field is made of.
ByteStrings == {<< >>, <<0>>, <<1>>, <<65, 0>>}

\* Every map of at most MaxPairs pairs over them.
ByteMaps ==
    UNION {[S -> ByteStrings] :
              S \in {K \in SUBSET ByteStrings : Cardinality(K) <= MaxPairs}}

\* The orders in which an unordered_map may hand out the keys S.
Orders(S) ==
    {o \in [1..Cardinality(S) -> S] :
        \A i, j \in 1..Cardinality(S) : o[i] = o[j] => i = j}

InitBytes ==
    /\ EmptyDirectory
    /\ unitCall \in UNION {{[fn |-> "serializeMap", map |-> m, order |-> o] :
                                o \in Orders(DOMAIN m)} : m \in ByteMaps}
    /\ unitResult = NoResult
    /\ NoFileLocks
    /\ NoFileWrites

\* serializeMap(map)
SerializeMap ==
    /\ unitCall.fn = "serializeMap" /\ unitResult = NoResult
    /\ unitResult' = [fn |-> "serializeMap",
                      buf |-> serializeMapBytes(unitCall.map, unitCall.order)]
    /\ UNCHANGED <<unitCall, storage, fileLocks, fileWrites>>

\* deserializeMap of the buffer just encoded; the call keeps the map the
\* buffer was made of.
DeserializeMap ==
    /\ unitCall.fn = "serializeMap" /\ unitResult.fn = "serializeMap"
    /\ unitCall' = [fn |-> "deserializeMap", buf |-> unitResult.buf,
                    of |-> unitCall.map]
    /\ unitResult' = [fn |-> "deserializeMap",
                      decoded |-> deserializeMapBytes(unitResult.buf)]
    /\ UNCHANGED <<storage, fileLocks, fileWrites>>

NextBytes == SerializeMap \/ DeserializeMap

SpecBytes == InitBytes /\ [][NextBytes]_vars

\* ------------------------------------------------- JournalManager alone
\* One JournalManager on an existing journal file, called by one thread.
\* readAllEntriesFrom: the entries it pushes.  Given a checkpoint id (cp is
\* not NoUuid) every CHECKPOINT entry is passed over, and so is every entry
\* before the CHECKPOINT entry with that id.
RECURSIVE readLoop(_, _, _, _)
readLoop(lines, i, cp, found) ==
    IF i > Len(lines) THEN << >>
    ELSE LET entry == deserialize(lines[i]) IN
         IF entry = NoEntry
         THEN readLoop(lines, i + 1, cp, found)
         ELSE IF cp # NoUuid /\ entry.type = "CHECKPOINT"
         THEN readLoop(lines, i + 1, cp, found \/ entry.uuid = cp)
         ELSE IF cp # NoUuid /\ ~found
         THEN readLoop(lines, i + 1, cp, found)
         ELSE <<entry>> \o readLoop(lines, i + 1, cp, found)

readAllEntriesFrom(cp, lines) == readLoop(lines, 1, cp, FALSE)

\* rewriteJournal: atomicFileWrite of the header and the entries; on success
\* the cache becomes the identifier of the last CHECKPOINT among them.
rewriteJournal(entries, lines, cache, writeOk) ==
    IF writeOk
    THEN [ok |-> TRUE, lines |-> entries,
          cache |-> scanLastCheckpoint(entries, 1, NoUuid)]
    ELSE [ok |-> FALSE, lines |-> lines, cache |-> cache]

\* The search of truncateJournalToCheckpoint: the index of the first
\* CHECKPOINT entry with the given id among the entries read, 0 if none.
checkpointIndex(allEntries, checkpointId) ==
    LET hits == {i \in 1..Len(allEntries) :
                    /\ allEntries[i].type = "CHECKPOINT"
                    /\ allEntries[i].uuid = checkpointId}
    IN  IF hits = {} THEN 0 ELSE CHOOSE i \in hits : \A j \in hits : i <= j

\* A truncateJournalToCheckpoint that rewrites the journal with the entries
\* it read when the search found no checkpoint.
truncateWithoutSearch(checkpointId, lines, cache, lockOk, writeOk) ==
    IF checkpointId = NoUuid \/ ~lockOk
    THEN [ok |-> FALSE, lines |-> lines, cache |-> cache]
    ELSE rewriteJournal(readAllEntriesFrom(checkpointId, lines), lines,
                        cache, writeOk)

\* JournalManager::truncateJournalToCheckpoint: [ok, lines, cache].  lockOk
\* is whether the FileLockGuard on the .truncate file was taken, writeOk the
\* outcome of the atomicFileWrite of rewriteJournal.
truncateJournalToCheckpoint(checkpointId, lines, cache, lockOk, writeOk) ==
    IF checkpointId = NoUuid \/ ~lockOk
    THEN [ok |-> FALSE, lines |-> lines, cache |-> cache]
    ELSE LET allEntries == readAllEntriesFrom(checkpointId, lines)
             index == checkpointIndex(allEntries, checkpointId)
         IN  IF index = 0
             THEN [ok |-> FALSE, lines |-> lines, cache |-> cache]
             ELSE rewriteJournal(SubSeq(allEntries, index, Len(allEntries)),
                                 lines, cache, writeOk)

\* JournalManager::countOperationsSinceLastCheckpoint: [count, cache].  When
\* the FileLockGuard on the .count file is not taken, return false makes an
\* optional that holds 0; otherwise getLastCheckpointId fills the cache and
\* the entries readAllEntriesFrom pushes for the cached id are counted.
countOperationsSinceLastCheckpoint(lines, cache, lockOk) ==
    IF ~lockOk THEN [count |-> 0, cache |-> cache]
    ELSE LET id == getLastCheckpointId(cache, lines) IN
         [count |-> Len(readAllEntriesFrom(id, lines)), cache |-> id]

\* Lines written to the journal of this JournalManager, and an entry whose
\* identifier is empty.
JournalEntries ==
    {Entry("INSERT", "1", "a"), Entry("UPDATE", "1", "b"),
     Entry("REMOVE", "1", ""), Entry("UPDATE", "2", "b"),
     Entry("CHECKPOINT", "2", ""), Entry("CHECKPOINT", "3", "")}

EmptyIdEntry == Entry("CHECKPOINT", NoUuid, "")

\* Maps handed to replayJournal and checkpoint ids handed to the calls.
ReplayStores == {EmptyMap, Put(EmptyMap, "1", "b"), Put(EmptyMap, "2", "a")}

CheckpointIds == {NoUuid, "1", "2", "3"}

\* No two CHECKPOINT lines carry the same identifier: the readers assert it.
UniqueCheckpoints(lines) ==
    \A i, j \in 1..Len(lines) :
        (/\ lines[i].type = "CHECKPOINT" /\ lines[j].type = "CHECKPOINT"
         /\ lines[i].uuid = lines[j].uuid) => i = j

\* A JournalManager just constructed on a journal that passed isJournalValid.
InitJournal ==
    /\ NoStorageManager
    /\ journalExists = TRUE
    /\ journal \in {q \in SeqsUpTo(JournalEntries, MaxLines) :
                       UniqueCheckpoints(q)}
    /\ unitCall = NoCall
    /\ unitResult = NoResult
    /\ NoFileLocks
    /\ NoFileWrites

others == <<phase, calls, dataStore_, storageMutex_,
            operationsSinceLastSnapshot_, snapshotOperationsThreshold_,
            flags, locals, nextUuid, journalExists, snapshotFile, backups,
            history, fileLocks, fileWrites>>

\* A writeOperation that caches the checkpoint id whatever the append
\* returned.
WriteOperationCachesAlways(entry, ok) ==
    /\ Len(journal) < MaxLines
    /\ UniqueCheckpoints(Append(journal, entry))
    /\ LET w == writeOperation(journal, entry, ok) IN
       /\ journal' = w.lines
       /\ lastCheckpointId_' =
             IF entry.type = "CHECKPOINT" THEN entry.uuid
             ELSE lastCheckpointId_
       /\ unitCall' = [fn |-> "writeOperation", entry |-> entry]
       /\ unitResult' = [fn |-> "writeOperation", ok |-> w.ok]
    /\ UNCHANGED others

\* writeInsert, writeUpdate, writeRemove, writeCheckpoint: writeOperation
\* appends the line, and for a CHECKPOINT that was appended caches its id.
WriteOperation(entry, ok) ==
    /\ Len(journal) < MaxLines
    /\ UniqueCheckpoints(Append(journal, entry))
    /\ LET w == writeOperation(journal, entry, ok) IN
       /\ journal' = w.lines
       /\ lastCheckpointId_' =
             IF entry.type = "CHECKPOINT" /\ w.ok THEN entry.uuid
             ELSE lastCheckpointId_
       /\ unitCall' = [fn |-> "writeOperation", entry |-> entry]
       /\ unitResult' = [fn |-> "writeOperation", ok |-> w.ok]
    /\ UNCHANGED others

\* replayJournal(dataStore, lastCheckpoint): given is has_value(); a given
\* empty id is refused before the file is read.
ReplayJournal(store, given, cp) ==
    /\ unitCall' = [fn |-> "replayJournal", dataStore |-> store,
                    given |-> given, lastCheckpoint |-> cp]
    /\ unitResult' =
          IF given /\ cp = NoUuid
          THEN [fn |-> "replayJournal", ok |-> FALSE, dataStore |-> store]
          ELSE LET r == replayJournal(store, journal,
                                      IF given THEN cp ELSE NoUuid)
               IN  [fn |-> "replayJournal", ok |-> r.ok,
                    dataStore |-> r.store]
    /\ UNCHANGED <<journal, lastCheckpointId_, others>>

\* getLastCheckpointId(): the result is cached.
GetLastCheckpointId ==
    /\ unitCall' = [fn |-> "getLastCheckpointId"]
    /\ unitResult' = [fn |-> "getLastCheckpointId",
                      id |-> getLastCheckpointId(lastCheckpointId_, journal)]
    /\ lastCheckpointId_' = unitResult'.id
    /\ UNCHANGED <<journal, others>>

\* truncateJournalToCheckpoint(checkpointId)
TruncateJournalToCheckpoint(checkpointId, lockOk, writeOk) ==
    LET r == truncateJournalToCheckpoint(checkpointId, journal,
                                         lastCheckpointId_, lockOk, writeOk)
    IN  /\ unitCall' = [fn |-> "truncateJournalToCheckpoint",
                        checkpointId |-> checkpointId,
                        locked |-> lockOk, written |-> writeOk]
        /\ unitResult' = [fn |-> "truncateJournalToCheckpoint", ok |-> r.ok]
        /\ journal' = r.lines
        /\ lastCheckpointId_' = r.cache
        /\ UNCHANGED others

\* countOperationsSinceLastCheckpoint()
CountOperationsSinceLastCheckpoint(lockOk) ==
    LET r == countOperationsSinceLastCheckpoint(journal, lastCheckpointId_,
                                                lockOk)
    IN  /\ unitCall' = [fn |-> "countOperationsSinceLastCheckpoint",
                        locked |-> lockOk]
        /\ unitResult' = [fn |-> "countOperationsSinceLastCheckpoint",
                          count |-> r.count]
        /\ lastCheckpointId_' = r.cache
        /\ UNCHANGED <<journal, others>>

NextJournal ==
    \/ \E entry \in JournalEntries \cup {EmptyIdEntry}, ok \in BOOLEAN :
          WriteOperation(entry, ok)
    \/ \E store \in ReplayStores, given \in BOOLEAN, cp \in CheckpointIds :
          ReplayJournal(store, given, cp)
    \/ GetLastCheckpointId
    \/ \E cp \in CheckpointIds, lockOk \in BOOLEAN, writeOk \in BOOLEAN :
          TruncateJournalToCheckpoint(cp, lockOk, writeOk)
    \/ \E lockOk \in BOOLEAN : CountOperationsSinceLastCheckpoint(lockOk)

SpecJournal == InitJournal /\ [][NextJournal]_vars

\* ---------------------------------------------- FileLockGuard in steps
InitLock ==
    /\ EmptyDirectory
    /\ unitCall = NoCall
    /\ unitResult = NoResult
    /\ NoFileLocks
    /\ NoFileWrites

\* return of acquireFileLock: true makes a FileLockGuard with locked_ set,
\* which the thread keeps.
AcquireReturns(t, mode, ok) ==
    /\ lockPc' = [lockPc EXCEPT ![t] = "idle"]
    /\ lockRequest' = [lockRequest EXCEPT ![t] = NoRequest]
    /\ guards' = [guards EXCEPT ![t] = IF ok THEN Append(@, mode) ELSE @]

\* open(lockPath, O_RDWR | O_CREAT): the file that has the name, or a new one.
CanOpen == lockFile # NoFile \/ filesCreated < MaxFiles

Opened == IF lockFile # NoFile THEN lockFile ELSE filesCreated + 1

\* acquireFileLock once the table shows no entry, from open to the return or
\* to the pause of its flock loop.
OpenAndFlock(t, mode, waitStrategy) ==
    LET fd == Fd(t, Opened) IN
    /\ CanOpen
    /\ lockFile' = Opened
    /\ filesCreated' = IF lockFile # NoFile THEN filesCreated
                       ELSE filesCreated + 1
    /\ IF FlockGranted(flocks, fd, LockType(mode))
       THEN /\ flocks' = flocks \cup {[fd |-> fd, type |-> LockType(mode)]}
            /\ fileLockMap' = emplace(fileLockMap, LockInfo(fd, mode, t))
            /\ fileLockMutex' = NoLock
            /\ AcquireReturns(t, mode, TRUE)
       ELSE /\ UNCHANGED <<flocks, fileLockMap>>
            /\ CASE waitStrategy = "STANDARD" ->
                       /\ fileLockMutex' = t
                       /\ lockPc' = [lockPc EXCEPT ![t] = "flock"]
                       /\ lockRequest' =
                             [lockRequest EXCEPT ![t] =
                                 [mode |-> mode, waitStrategy |-> waitStrategy,
                                  fd |-> fd]]
                       /\ guards' = guards
                 [] waitStrategy = "INSTANTLY" ->
                       /\ fileLockMutex' = NoLock
                       /\ AcquireReturns(t, mode, FALSE)
                 [] waitStrategy = "TIMEOUT" ->
                       /\ fileLockMutex' = NoLock
                       /\ \/ AcquireReturns(t, mode, FALSE)
                          \/ /\ lockPc' = [lockPc EXCEPT ![t] = "pause"]
                             /\ lockRequest' =
                                   [lockRequest EXCEPT ![t] =
                                       [mode |-> mode,
                                        waitStrategy |-> waitStrategy,
                                        fd |-> fd]]
                             /\ guards' = guards

\* A step that is not the start of an acquireFileLock call.
NoCallStarts == unitCall' = NoCall /\ unitResult' = NoResult

\* acquireFileLock(filePath, mode, waitStrategy) from its start: the lookup
\* in fileLockMap, and then the return, the first pauseLock of the wait for
\* the entry to go, or the open and the flock.
AcquireFileLock(t, mode, waitStrategy) ==
    /\ lockPc[t] = "idle" /\ fileLockMutex = NoLock
    /\ Len(guards[t]) < MaxGuards
    /\ IF fileLockMap = NoLockInfo
       THEN OpenAndFlock(t, mode, waitStrategy)
       ELSE /\ UNCHANGED <<fileLockMutex, lockFile, filesCreated, flocks>>
            /\ IF mode = "SHARED" /\ fileLockMap.mode_ = "SHARED"
               THEN /\ fileLockMap' = incrementRefCount(fileLockMap, t)
                    /\ AcquireReturns(t, mode, TRUE)
               ELSE /\ fileLockMap' = fileLockMap
                    /\ IF \/ lockedByThread(fileLockMap, t)
                          \/ waitStrategy = "INSTANTLY"
                       THEN AcquireReturns(t, mode, FALSE)
                       ELSE /\ lockPc' = [lockPc EXCEPT ![t] = "wait"]
                            /\ lockRequest' =
                                  [lockRequest EXCEPT ![t] =
                                      [mode |-> mode,
                                       waitStrategy |-> waitStrategy]]
                            /\ guards' = guards
    /\ unitCall' = [fn |-> "acquireFileLock", thread |-> t, mode |-> mode,
                    waitStrategy |-> waitStrategy]
    /\ unitResult' = [fn |-> "acquireFileLock",
                      returned |-> IF lockPc'[t] # "idle" THEN "not yet"
                                   ELSE IF guards'[t] # guards[t] THEN "true"
                                   ELSE "false"]
    /\ UNCHANGED <<storage, fileWrites>>

\* One turn of the wait for the entry to go, after a pauseLock: the entry is
\* gone and the call goes on to open and flock; or it is there, whatever its
\* mode, and the call goes on waiting, or TIMEOUT finds its time run out.
WaitForEntry(t) ==
    /\ lockPc[t] = "wait" /\ fileLockMutex = NoLock
    /\ IF fileLockMap = NoLockInfo
       THEN /\ OpenAndFlock(t, lockRequest[t].mode,
                            lockRequest[t].waitStrategy)
            /\ NoCallStarts
       ELSE /\ UNCHANGED <<fileLockMap, fileLockMutex, lockFile, filesCreated,
                           flocks>>
            /\ \/ /\ lockRequest[t].waitStrategy = "TIMEOUT"
                  /\ AcquireReturns(t, lockRequest[t].mode, FALSE)
                  /\ NoCallStarts
               \/ /\ UNCHANGED <<lockPc, lockRequest, guards>>
                  /\ unitCall' = [fn |-> "wait", thread |-> t]
                  /\ unitResult' = [fn |-> "wait", returned |-> "not yet"]
    /\ UNCHANGED <<storage, fileWrites>>

\* The flock of a call that did not get it at once: the blocking flock of
\* STANDARD returns, holding fileLockMutex all along; or the flock loop of
\* TIMEOUT, after a pauseLock, gets the lock or finds the time-out run out.
\* Then the descriptor is emplaced and the call returns true.
FlockAgain(t) ==
    /\ \/ lockPc[t] = "flock" /\ fileLockMutex = t
       \/ lockPc[t] = "pause" /\ fileLockMutex = NoLock
    /\ LET r == lockRequest[t] IN
       IF FlockGranted(flocks, r.fd, LockType(r.mode))
       THEN /\ flocks' = flocks \cup {[fd |-> r.fd, type |-> LockType(r.mode)]}
            /\ fileLockMap' = emplace(fileLockMap, LockInfo(r.fd, r.mode, t))
            /\ AcquireReturns(t, r.mode, TRUE)
       ELSE /\ lockPc[t] = "pause"
            /\ UNCHANGED <<flocks, fileLockMap>>
            /\ AcquireReturns(t, r.mode, FALSE)
    /\ fileLockMutex' = NoLock
    /\ NoCallStarts
    /\ UNCHANGED <<lockFile, filesCreated, storage, fileWrites>>

\* FileLockGuard::release of the guard at position i of the thread's guards:
\* releaseFileLock, and locked_ is cleared if it returned true.
Release(t, i) ==
    /\ lockPc[t] = "idle" /\ fileLockMutex = NoLock
    /\ i \in 1..Len(guards[t])
    /\ IF fileLockMap = NoLockInfo \/ ~lockedByThread(fileLockMap, t)
       THEN UNCHANGED <<fileLockMap, flocks, lockFile, guards>>
       ELSE /\ guards' = [guards EXCEPT ![t] =
                             SubSeq(@, 1, i - 1) \o SubSeq(@, i + 1, Len(@))]
            /\ IF fileLockMap.mode_ = "SHARED" /\ fileLockMap.refCount_ > 1
               THEN /\ fileLockMap' = decrementRefCount(fileLockMap, t)
                    /\ UNCHANGED <<flocks, lockFile>>
               ELSE /\ flocks' = {l \in flocks : l.fd # fileLockMap.fd_}
                    /\ lockFile' = NoFile
                    /\ fileLockMap' = NoLockInfo
    /\ unitCall' = [fn |-> "release", thread |-> t, owner |-> t]
    /\ unitResult' = [fn |-> "release",
                      returned |-> IF guards' # guards THEN "true"
                                   ELSE "false"]
    /\ UNCHANGED <<fileLockMutex, filesCreated, lockPc, lockRequest, storage, fileWrites>>

ReleaseFromOtherThreadUnchecked(t, u, i) ==
    /\ t # u /\ guards[t] = << >>
    /\ lockPc[t] = "idle" /\ fileLockMutex = NoLock
    /\ i \in 1..Len(guards[u])
    /\ IF fileLockMap = NoLockInfo
       THEN UNCHANGED <<fileLockMap, flocks, lockFile, guards>>
       ELSE /\ guards' = [guards EXCEPT ![u] =
                             SubSeq(@, 1, i - 1) \o SubSeq(@, i + 1, Len(@))]
            /\ flocks' = {l \in flocks : l.fd # fileLockMap.fd_}
            /\ lockFile' = NoFile
            /\ fileLockMap' = NoLockInfo
    /\ unitCall' = [fn |-> "release", thread |-> t, owner |-> u]
    /\ unitResult' = [fn |-> "release",
                      returned |-> IF guards' # guards THEN "true"
                                   ELSE "false"]
    /\ UNCHANGED <<fileLockMutex, filesCreated, lockPc, lockRequest, storage, fileWrites>>

\* FileLockGuard::release of a guard of thread u, called by a thread t that
\* has no guard of its own: releaseFileLock looks for the calling thread in
\* the entry, and the guard's locked_ is cleared only if it returned true.
ReleaseFromOtherThread(t, u, i) ==
    /\ t # u /\ guards[t] = << >>
    /\ lockPc[t] = "idle" /\ fileLockMutex = NoLock
    /\ i \in 1..Len(guards[u])
    /\ IF fileLockMap = NoLockInfo \/ ~lockedByThread(fileLockMap, t)
       THEN UNCHANGED <<fileLockMap, flocks, lockFile, guards>>
       ELSE /\ guards' = [guards EXCEPT ![u] =
                             SubSeq(@, 1, i - 1) \o SubSeq(@, i + 1, Len(@))]
            /\ IF fileLockMap.mode_ = "SHARED" /\ fileLockMap.refCount_ > 1
               THEN /\ fileLockMap' = decrementRefCount(fileLockMap, t)
                    /\ UNCHANGED <<flocks, lockFile>>
               ELSE /\ flocks' = {l \in flocks : l.fd # fileLockMap.fd_}
                    /\ lockFile' = NoFile
                    /\ fileLockMap' = NoLockInfo
    /\ unitCall' = [fn |-> "release", thread |-> t, owner |-> u]
    /\ unitResult' = [fn |-> "release",
                      returned |-> IF guards' # guards THEN "true"
                                   ELSE "false"]
    /\ UNCHANGED <<fileLockMutex, filesCreated, lockPc, lockRequest, storage, fileWrites>>

\* The other process opens the lock file and takes flock on it.
OtherAcquires(type) ==
    LET fd == Fd(OtherProcess, Opened) IN
    /\ \A l \in flocks : l.fd.owner # OtherProcess
    /\ CanOpen
    /\ FlockGranted(flocks, fd, type)
    /\ lockFile' = Opened
    /\ filesCreated' = IF lockFile # NoFile THEN filesCreated
                       ELSE filesCreated + 1
    /\ flocks' = flocks \cup {[fd |-> fd, type |-> type]}
    /\ NoCallStarts
    /\ UNCHANGED <<fileLockMap, fileLockMutex, lockPc, lockRequest, guards,
                   storage, fileWrites>>

\* The other process drops its flock and closes the file; if it is a process
\* that runs releaseFileLock it also unlinks the lock file.
OtherReleases(unlinks) ==
    /\ \E l \in flocks : l.fd.owner = OtherProcess
    /\ flocks' = {l \in flocks : l.fd.owner # OtherProcess}
    /\ lockFile' = IF unlinks THEN NoFile ELSE lockFile
    /\ NoCallStarts
    /\ UNCHANGED <<fileLockMap, fileLockMutex, filesCreated, lockPc,
                   lockRequest, guards, storage, fileWrites>>

NextLock ==
    \/ \E t \in LockThreads, mode \in LockModes,
          waitStrategy \in LockWaitStrategies :
          AcquireFileLock(t, mode, waitStrategy)
    \/ \E t \in LockThreads : WaitForEntry(t)
    \/ \E t \in LockThreads : FlockAgain(t)
    \/ \E t \in LockThreads, i \in 1..MaxGuards : Release(t, i)
    \/ \E t, u \in LockThreads, i \in 1..MaxGuards :
          ReleaseFromOtherThread(t, u, i)
    \/ \E type \in {"LOCK_EX", "LOCK_SH"} : OtherAcquires(type)
    \/ \E unlinks \in BOOLEAN : OtherReleases(unlinks)

SpecLock == InitLock /\ [][NextLock]_vars

\* ------------------------------------------------- atomicFileWrite in steps
\* One destination path written by the threads of Users, each call with the
\* data of its thread.  A file's content is a sequence of blocks, so that a
\* file written or copied half-way is a state.  The directory `files` maps
\* the names that exist to their contents.  getTempFilePath and
\* getBackupFilePath give every call names that no other call uses.  Any
\* file-system call may fail.
Writers == Users

FilePath == <<"file", "">>

TempFilePath(w) == <<"tmp", w>>

BackupFilePath(w) == <<"backup", w>>

\* What the file holds before the calls, and what writer w writes.
PreviousContent == <<"old", "old">>

DataOf(w) == <<w, w>>

InitWrite ==
    /\ EmptyDirectory
    /\ unitCall = NoCall
    /\ unitResult = NoResult
    /\ NoFileLocks
    /\ filePc = [t \in Threads |-> "idle"]
    /\ fileLocal = [t \in Threads |-> NoLocal]
    /\ files = Put(NoFiles, FilePath, PreviousContent)
    /\ journalMutex_ = NoLock
    /\ snapshotMutex_ = NoLock
    /\ sharedHolders = {}

\* The step made by writer w: where the call stands afterwards, and what it
\* has returned.
WriteStep(w, to, returned) ==
    /\ filePc' = [filePc EXCEPT ![w] = to]
    /\ fileLocal' = [fileLocal EXCEPT ![w] =
                        IF to = "idle" THEN NoLocal
                        ELSE [fn |-> "atomicFileWrite", data |-> DataOf(w)]]
    /\ unitCall' = [fn |-> "atomicFileWrite", thread |-> w]
    /\ unitResult' = [fn |-> "atomicFileWrite", returned |-> returned]
    /\ UNCHANGED <<storage, fileLocks, journalMutex_, stepMutexes>>

\* atomicFileWrite(filePath, data) from its start: the temporary file is
\* opened for writing, which creates it empty.
AtomicFileWrite(w, ok) ==
    /\ filePc[w] = "idle"
    /\ IF ok
       THEN /\ files' = Put(files, TempFilePath(w), << >>)
            /\ WriteStep(w, "open", "not yet")
       ELSE /\ files' = files
            /\ WriteStep(w, "idle", "false")

\* outFile.write, flush and close: one more block reaches the temporary
\* file; a failure removes the temporary file.
WriteTemp(w, ok) ==
    /\ filePc[w] = "open"
    /\ LET data == fileLocal[w].data
           written == files[TempFilePath(w)]
       IN  IF ok
           THEN /\ files' = Put(files, TempFilePath(w),
                                Append(written, data[Len(written) + 1]))
                /\ WriteStep(w, IF Len(written) + 1 = Len(data) THEN "closed"
                                ELSE "open", "not yet")
           ELSE /\ files' = Erase(files, TempFilePath(w))
                /\ WriteStep(w, "idle", "false")

\* std::filesystem::rename(tempFilePath, filePath): the name takes the
\* content of the temporary file in one step.
rename(dir, from, to) == Put(Erase(dir, from), to, dir[from])

\* The first rename.  If it fails and the file exists, createFileBackup
\* copies the file; if the file does not exist the temporary file is removed.
RenameTemp(w, ok, backedUp) ==
    /\ filePc[w] = "closed"
    /\ IF ok
       THEN /\ files' = rename(files, TempFilePath(w), FilePath)
            /\ WriteStep(w, "idle", "true")
       ELSE IF Has(files, FilePath)
            THEN IF backedUp
                 THEN /\ files' = Put(files, BackupFilePath(w),
                                      files[FilePath])
                      /\ WriteStep(w, "backup", "not yet")
                 ELSE /\ files' = files
                      /\ WriteStep(w, "idle", "false")
            ELSE /\ files' = Erase(files, TempFilePath(w))
                 /\ WriteStep(w, "idle", "false")

\* std::filesystem::remove(filePath) of the fallback.
RemoveExisting(w, ok) ==
    /\ filePc[w] = "backup"
    /\ IF ok
       THEN /\ files' = Erase(files, FilePath)
            /\ WriteStep(w, "removed", "not yet")
       ELSE /\ files' = Erase(files, TempFilePath(w))
            /\ WriteStep(w, "idle", "false")

\* The second rename; if it fails the backup is to be copied back.
RenameAgain(w, ok) ==
    /\ filePc[w] = "removed"
    /\ IF ok
       THEN /\ files' = rename(files, TempFilePath(w), FilePath)
            /\ WriteStep(w, "idle", "true")
       ELSE IF Has(files, BackupFilePath(w))
            THEN /\ files' = files
                 /\ WriteStep(w, "restore", "not yet")
            ELSE /\ files' = Erase(files, TempFilePath(w))
                 /\ WriteStep(w, "idle", "false")

\* copy_file(backupPath, filePath, overwrite_existing): block after block;
\* when it is through the backup is removed; in any case the temporary file
\* is removed and the call returns false.
Restore(w, ok) ==
    /\ filePc[w] = "restore"
    /\ LET backup == files[BackupFilePath(w)]
           copied == IF Has(files, FilePath) /\ fileLocal[w].fn = "copy_file"
                     THEN files[FilePath] ELSE << >>
       IN  IF ok
           THEN IF Len(copied) + 1 < Len(backup)
                THEN /\ files' = Put(files, FilePath,
                                     Append(copied, backup[Len(copied) + 1]))
                     /\ filePc' = filePc
                     /\ fileLocal' = [fileLocal EXCEPT ![w] =
                                         [fn |-> "copy_file",
                                          data |-> DataOf(w)]]
                     /\ unitCall' = [fn |-> "atomicFileWrite", thread |-> w]
                     /\ unitResult' = [fn |-> "atomicFileWrite",
                                       returned |-> "not yet"]
                     /\ UNCHANGED <<storage, fileLocks, journalMutex_, stepMutexes>>
                ELSE /\ files' = Erase(Erase(Put(files, FilePath, backup),
                                             BackupFilePath(w)),
                                       TempFilePath(w))
                     /\ WriteStep(w, "idle", "false")
           ELSE /\ files' = Erase(files, TempFilePath(w))
                /\ WriteStep(w, "idle", "false")

\* The process is killed at any step of the calls; the files stay as they
\* are.
CrashInWrite ==
    /\ \E w \in Writers : filePc[w] # "idle"
    /\ filePc' = [t \in Threads |-> "idle"]
    /\ fileLocal' = [t \in Threads |-> NoLocal]
    /\ unitCall' = [fn |-> "crash"]
    /\ unitResult' = NoResult
    /\ UNCHANGED <<files, storage, fileLocks, journalMutex_, stepMutexes>>

NextWrite ==
    \/ \E w \in Writers, ok \in BOOLEAN : AtomicFileWrite(w, ok)
    \/ \E w \in Writers, ok \in BOOLEAN : WriteTemp(w, ok)
    \/ \E w \in Writers, ok, backedUp \in BOOLEAN : RenameTemp(w, ok, backedUp)
    \/ \E w \in Writers, ok \in BOOLEAN : RemoveExisting(w, ok)
    \/ \E w \in Writers, ok \in BOOLEAN : RenameAgain(w, ok)
    \/ \E w \in Writers, ok \in BOOLEAN : Restore(w, ok)
    \/ CrashInWrite

SpecWrite == InitWrite /\ [][NextWrite]_vars

\* ------------------------------------------------ journal calls in steps
\* The journal file of a store, written by its threads: a user thread inside
\* insert, update or remove holds the exclusive side of storageMutex_ around
\* its writeOperation; the snapshot thread inside createSnapshot calls
\* writeCheckpoint holding no map lock; the main thread calls
\* truncateJournalToCheckpoint.  safeFileAppend is two steps: the open for
\* append, then the write with its flush.
Appenders == Users \cup {SnapshotThread}

\* What each thread appends.
EntryOf(t) ==
    IF t = SnapshotThread THEN Entry("CHECKPOINT", "3", "")
    ELSE IF t = "u1" THEN Entry("INSERT", "1", "a")
    ELSE Entry("UPDATE", "1", "b")

\* Journals the calls start from.
AppendJournals ==
    {<< >>, <<Entry("INSERT", "1", "a"), Entry("CHECKPOINT", "2", "")>>}

InitAppend ==
    /\ NoStorageManager
    /\ journalExists = TRUE
    /\ journal \in AppendJournals
    /\ unitCall = NoCall
    /\ unitResult = NoResult
    /\ NoFileLocks
    /\ NoFileWrites

rest == <<phase, calls, dataStore_, operationsSinceLastSnapshot_,
          snapshotOperationsThreshold_, flags, locals, nextUuid,
          journalExists, snapshotFile, backups, history, fileLocks, files,
          stepMutexes>>

\* The calls in progress that have not written yet.
Appending == {t \in Appenders : filePc[t] # "idle"}

\* The start of a journal write: unique_lock on storageMutex_ in insert,
\* update and remove; lock_guard on journalMutex_ in writeOperation for a
\* CHECKPOINT.
BeginAppend(t) ==
    /\ filePc[t] = "idle"
    /\ Len(journal) + Cardinality(Appending) < MaxLines
    /\ UniqueCheckpoints(Append(journal, EntryOf(t)))
    /\ IF t = SnapshotThread
       THEN /\ journalMutex_ = NoLock
            /\ journalMutex_' = t
            /\ storageMutex_' = storageMutex_
       ELSE /\ CanLockExclusive
            /\ storageMutex_' = t
            /\ journalMutex_' = journalMutex_
    /\ filePc' = [filePc EXCEPT ![t] = "writeOperation"]
    /\ fileLocal' = [fileLocal EXCEPT ![t] =
                        [fn |-> "writeOperation", entry |-> EntryOf(t)]]
    /\ unitCall' = [fn |-> "writeOperation", thread |-> t]
    /\ unitResult' = [fn |-> "writeOperation", returned |-> "not yet"]
    /\ UNCHANGED <<journal, lastCheckpointId_, rest>>

\* The locks a journal write gives back when it returns.
EndAppend(t) ==
    /\ storageMutex_' = IF storageMutex_ = t THEN NoLock ELSE storageMutex_
    /\ journalMutex_' = IF journalMutex_ = t THEN NoLock ELSE journalMutex_
    /\ filePc' = [filePc EXCEPT ![t] = "idle"]
    /\ fileLocal' = [fileLocal EXCEPT ![t] = NoLocal]

\* safeFileAppend: std::ofstream outFile(filePath, binary | app).
OpenAppend(t, ok) ==
    /\ filePc[t] = "writeOperation"
    /\ IF ok
       THEN /\ filePc' = [filePc EXCEPT ![t] = "open"]
            /\ UNCHANGED <<fileLocal, storageMutex_, journalMutex_>>
       ELSE EndAppend(t)
    /\ unitCall' = [fn |-> "safeFileAppend", thread |-> t]
    /\ unitResult' = [fn |-> "safeFileAppend",
                      returned |-> IF ok THEN "not yet" ELSE "false"]
    /\ UNCHANGED <<journal, lastCheckpointId_, rest>>

\* safeFileAppend: write and flush, and the return of writeOperation, which
\* caches the id of a CHECKPOINT that was written.
WriteAppend(t, ok) ==
    /\ filePc[t] = "open"
    /\ LET w == writeOperation(journal, fileLocal[t].entry, ok) IN
       /\ journal' = w.lines
       /\ lastCheckpointId_' =
             IF fileLocal[t].entry.type = "CHECKPOINT" /\ w.ok
             THEN fileLocal[t].entry.uuid
             ELSE lastCheckpointId_
       /\ unitResult' = [fn |-> "safeFileAppend",
                         returned |-> IF w.ok THEN "true" ELSE "false"]
    /\ EndAppend(t)
    /\ unitCall' = [fn |-> "safeFileAppend", thread |-> t]
    /\ UNCHANGED rest

\* truncateJournalToCheckpoint(checkpointId) from its start to the
\* FileLockGuard on the .truncate file.
BeginTruncate(checkpointId, lockOk) ==
    /\ filePc[MainThread] = "idle"
    /\ IF checkpointId = NoUuid \/ ~lockOk
       THEN UNCHANGED <<filePc, fileLocal>>
       ELSE /\ filePc' = [filePc EXCEPT ![MainThread] = "locked"]
            /\ fileLocal' = [fileLocal EXCEPT ![MainThread] =
                                [fn |-> "truncateJournalToCheckpoint",
                                 checkpointId |-> checkpointId]]
    /\ unitCall' = [fn |-> "truncateJournalToCheckpoint",
                    thread |-> MainThread]
    /\ unitResult' = [fn |-> "truncateJournalToCheckpoint",
                      returned |-> IF checkpointId = NoUuid \/ ~lockOk
                                   THEN "false" ELSE "not yet"]
    /\ UNCHANGED <<journal, lastCheckpointId_, storageMutex_, journalMutex_,
                   rest>>

\* The rest of truncateJournalToCheckpoint: readAllEntriesFrom and the search
\* for the checkpoint, which ends the call if it finds none; then
\* rewriteJournal with the entries that were read.
TruncateStep(writeOk) ==
    LET local == fileLocal[MainThread] IN
    /\ filePc[MainThread] \in {"locked", "rewrite"}
    /\ IF filePc[MainThread] = "locked"
       THEN LET allEntries == readAllEntriesFrom(local.checkpointId, journal)
                index == checkpointIndex(allEntries, local.checkpointId)
            IN  /\ filePc' = [filePc EXCEPT ![MainThread] =
                                 IF index = 0 THEN "idle" ELSE "rewrite"]
                /\ fileLocal' = [fileLocal EXCEPT ![MainThread] =
                                    IF index = 0 THEN NoLocal
                                    ELSE [local EXCEPT !.fn = "rewriteJournal"]
                                         @@ [allEntries |->
                                                SubSeq(allEntries, index,
                                                       Len(allEntries))]]
                /\ unitResult' = [fn |-> "truncateJournalToCheckpoint",
                                  returned |-> IF index = 0 THEN "false"
                                               ELSE "not yet"]
                /\ UNCHANGED <<journal, lastCheckpointId_>>
       ELSE LET r == rewriteJournal(local.allEntries, journal,
                                    lastCheckpointId_, writeOk)
            IN  /\ journal' = r.lines
                /\ lastCheckpointId_' = r.cache
                /\ filePc' = [filePc EXCEPT ![MainThread] = "idle"]
                /\ fileLocal' = [fileLocal EXCEPT ![MainThread] = NoLocal]
                /\ unitResult' = [fn |-> "truncateJournalToCheckpoint",
                                  returned |-> IF r.ok THEN "true"
                                               ELSE "false"]
    /\ unitCall' = [fn |-> "truncateJournalToCheckpoint",
                    thread |-> MainThread]
    /\ UNCHANGED <<storageMutex_, journalMutex_, rest>>

NextAppend ==
    \/ \E t \in Appenders : BeginAppend(t)
    \/ \E t \in Appenders, ok \in BOOLEAN : OpenAppend(t, ok)
    \/ \E t \in Appenders, ok \in BOOLEAN : WriteAppend(t, ok)
    \/ \E cp \in CheckpointIds, lockOk \in BOOLEAN : BeginTruncate(cp, lockOk)
    \/ \E writeOk \in BOOLEAN : TruncateStep(writeOk)

SpecAppend == InitAppend /\ [][NextAppend]_vars

\* ------------------------------------------- StorageManager mutexes in steps
\* The calls of a StorageManager with every acquisition of storageMutex_,
\* snapshotMutex_ and journalMutex_ as a step of its own, so that a thread
\* can be seen holding one mutex while it waits for another.  Only the
\* mutexes, the flags and the operation counter are followed here: the map,
\* the journal and the snapshot file stay as the constructor left them, and
\* whether a journal or snapshot write succeeds is an input of the step.
mutexRest == <<op, ret, locals, nextUuid, disk, history>>

\* Where a thread stands when its createSnapshot has returned.
AfterSnapshot(t) ==
    IF t = SnapshotThread THEN "loop"
    ELSE IF t = MainThread THEN "done" ELSE "idle"

\* A user thread calls insert, update or remove ("lock_unique"), get
\* ("lock_shared_get"), createSnapshot ("lock_shared_copy") or
\* requestSnapshotAsync ("lock_request"): it arrives at the call's first
\* lock.  Mutations are counted up to one past the largest threshold.
Call(t, first) ==
    /\ phase = "running" /\ pc[t] = "idle"
    /\ first = "lock_unique" => operationsSinceLastSnapshot_ <= MaxThreshold
    /\ pc' = [pc EXCEPT ![t] = first]
    /\ UNCHANGED <<phase, memory, flags, components, mutexRest>>

\* std::unique_lock / std::shared_lock on storageMutex_ is granted.
LockStorage(t) ==
    /\ phase \in {"running", "stopping"}
    /\ \/ /\ pc[t] = "lock_unique"
          /\ storageMutex_ = NoLock /\ sharedHolders = {}
          /\ storageMutex_' = t
          /\ pc' = [pc EXCEPT ![t] = "mutate"]
          /\ UNCHANGED sharedHolders
       \/ /\ pc[t] \in {"lock_shared_get", "lock_shared_copy"}
          /\ storageMutex_ = NoLock
          /\ sharedHolders' = sharedHolders \cup {t}
          /\ pc' = [pc EXCEPT ![t] = IF pc[t] = "lock_shared_get"
                                     THEN "read" ELSE "copy"]
          /\ UNCHANGED storageMutex_
    /\ UNCHANGED <<phase, dataStore_, operationsSinceLastSnapshot_,
                   snapshotOperationsThreshold_, lastCheckpointId_, flags,
                   unitCall, unitResult, fileLocks, filePc, fileLocal, files,
                   journalMutex_, snapshotMutex_, mutexRest>>

\* insert, update, remove under the exclusive lock: the journal write, the
\* map, notifyOperation.  A failed call and a call below the threshold return
\* and drop the lock; at the threshold the thread goes on to
\* requestSnapshotAsync with the exclusive lock still held.
Mutate(t, ok) ==
    /\ phase = "running" /\ pc[t] = "mutate"
    /\ LET currentOperations == operationsSinceLastSnapshot_ + 1
           reached == ok /\ currentOperations >= snapshotOperationsThreshold_
       IN  /\ operationsSinceLastSnapshot_' =
                  IF ok THEN currentOperations ELSE operationsSinceLastSnapshot_
           /\ pc' = [pc EXCEPT ![t] = IF reached THEN "lock_request" ELSE "idle"]
           /\ storageMutex_' = IF reached THEN storageMutex_ ELSE NoLock
    /\ UNCHANGED <<phase, dataStore_, snapshotOperationsThreshold_,
                   lastCheckpointId_, flags, components, mutexRest>>

\* std::lock_guard / std::unique_lock on snapshotMutex_ is granted: to
\* requestSnapshotAsync, to the destructor, to the snapshot thread before its
\* wait, and to the snapshot thread when wait_for wakes up (on a
\* notification, spuriously, or at its timeout).
LockSnapshotMutex(t, timeout) ==
    /\ phase \in {"running", "stopping"}
    /\ pc[t] \in {"lock_request", "lock_shutdown", "lock_wait", "sleeping"}
    /\ snapshotMutex_ = NoLock
    /\ snapshotMutex_' = t
    /\ pc' = [pc EXCEPT ![t] =
                 CASE pc[t] = "lock_request" -> "request"
                   [] pc[t] = "lock_shutdown" -> "shutdown"
                   [] pc[t] = "lock_wait" -> "wait"
                   [] OTHER -> IF timeout THEN "timed_out" ELSE "wait"]
    /\ UNCHANGED <<phase, memory, flags, unitCall, unitResult, fileLocks,
                   filePc, fileLocal, files, journalMutex_, sharedHolders,
                   mutexRest>>

\* requestSnapshotAsync under snapshotMutex_: raise the flag, notify, return;
\* a mutation that called it through notifyOperation returns as well and
\* drops its exclusive lock.
Request(t) ==
    /\ phase = "running" /\ pc[t] = "request"
    /\ snapshotRequested_' = TRUE
    /\ snapshotMutex_' = NoLock
    /\ storageMutex_' = IF storageMutex_ = t THEN NoLock ELSE storageMutex_
    /\ pc' = [pc EXCEPT ![t] = "idle"]
    /\ UNCHANGED <<phase, dataStore_, operationsSinceLastSnapshot_,
                   snapshotOperationsThreshold_, lastCheckpointId_,
                   shutdownRequested_, shouldCreateSnapshot, timeElapsed,
                   unitCall, unitResult, fileLocks, filePc, fileLocal, files,
                   journalMutex_, sharedHolders, mutexRest>>

\* The shared lock ends: get returns, createSnapshot has its copy.
UnlockShared(t) ==
    /\ phase \in {"running", "stopping"} /\ pc[t] \in {"read", "copy"}
    /\ sharedHolders' = sharedHolders \ {t}
    /\ pc' = [pc EXCEPT ![t] = IF pc[t] = "read" THEN "idle" ELSE "write"]
    /\ UNCHANGED <<phase, memory, flags, unitCall, unitResult, fileLocks,
                   filePc, fileLocal, files, journalMutex_, snapshotMutex_,
                   mutexRest>>

\* createSnapshot: writeSnapshotToDisk, holding no mutex.
WriteFile(t, ok) ==
    /\ phase \in {"running", "stopping"} /\ pc[t] = "write"
    /\ pc' = [pc EXCEPT ![t] = IF ok THEN "lock_journal" ELSE AfterSnapshot(t)]
    /\ UNCHANGED <<phase, memory, flags, components, mutexRest>>

\* writeOperation of a CHECKPOINT: std::lock_guard on journalMutex_ is
\* granted.
LockJournal(t) ==
    /\ phase \in {"running", "stopping"} /\ pc[t] = "lock_journal"
    /\ journalMutex_ = NoLock
    /\ journalMutex_' = t
    /\ pc' = [pc EXCEPT ![t] = "checkpoint"]
    /\ UNCHANGED <<phase, memory, flags, unitCall, unitResult, fileLocks,
                   filePc, fileLocal, files, stepMutexes, mutexRest>>

\* The CHECKPOINT line is written under journalMutex_; createSnapshot then
\* resets the counter and the time and returns.
Checkpoint(t, ok) ==
    /\ phase \in {"running", "stopping"} /\ pc[t] = "checkpoint"
    /\ journalMutex_' = NoLock
    /\ operationsSinceLastSnapshot_' =
           IF ok THEN 0 ELSE operationsSinceLastSnapshot_
    /\ timeElapsed' = IF ok THEN FALSE ELSE timeElapsed
    /\ pc' = [pc EXCEPT ![t] = AfterSnapshot(t)]
    /\ UNCHANGED <<phase, dataStore_, storageMutex_,
                   snapshotOperationsThreshold_, lastCheckpointId_,
                   snapshotRequested_, shutdownRequested_,
                   shouldCreateSnapshot, unitCall, unitResult, fileLocks,
                   filePc, fileLocal, files, stepMutexes, mutexRest>>

\* snapshotThreadFunction: the loop condition.
LoopTest ==
    /\ phase \in {"running", "stopping"} /\ pc[SnapshotThread] = "loop"
    /\ pc' = [pc EXCEPT ![SnapshotThread] =
                 IF shutdownRequested_ THEN "exited" ELSE "lock_wait"]
    /\ UNCHANGED <<phase, memory, flags, components, mutexRest>>

\* A snapshot thread that keeps snapshotMutex_ when wait_for has returned.
WaitKeepsMutex ==
    /\ phase \in {"running", "stopping"}
    /\ pc[SnapshotThread] \in {"wait", "timed_out"}
    /\ IF \/ snapshotRequested_ \/ shutdownRequested_
          \/ pc[SnapshotThread] = "timed_out"
       THEN /\ shouldCreateSnapshot' = snapshotRequested_
            /\ snapshotRequested_' = FALSE
            /\ pc' = [pc EXCEPT ![SnapshotThread] = "decide"]
            /\ UNCHANGED snapshotMutex_
       ELSE /\ pc' = [pc EXCEPT ![SnapshotThread] = "sleeping"]
            /\ snapshotMutex_' = NoLock
            /\ UNCHANGED <<snapshotRequested_, shouldCreateSnapshot>>
    /\ UNCHANGED <<phase, memory, shutdownRequested_, timeElapsed, unitCall,
                   unitResult, fileLocks, filePc, fileLocal, files,
                   journalMutex_, sharedHolders, mutexRest>>

\* snapshotThreadFunction under snapshotMutex_: wait_for tests its predicate.
\* If the predicate holds, or the wait has timed out, wait_for returns, the
\* request flag is taken and the block with the lock ends; otherwise the
\* thread sleeps, and the mutex is free while it does.
Wait ==
    /\ phase \in {"running", "stopping"}
    /\ pc[SnapshotThread] \in {"wait", "timed_out"}
    /\ IF \/ snapshotRequested_ \/ shutdownRequested_
          \/ pc[SnapshotThread] = "timed_out"
       THEN /\ shouldCreateSnapshot' = snapshotRequested_
            /\ snapshotRequested_' = FALSE
            /\ pc' = [pc EXCEPT ![SnapshotThread] = "decide"]
       ELSE /\ pc' = [pc EXCEPT ![SnapshotThread] = "sleeping"]
            /\ UNCHANGED <<snapshotRequested_, shouldCreateSnapshot>>
    /\ snapshotMutex_' = NoLock
    /\ UNCHANGED <<phase, memory, shutdownRequested_, timeElapsed, unitCall,
                   unitResult, fileLocks, filePc, fileLocal, files,
                   journalMutex_, sharedHolders, mutexRest>>

\* snapshotThreadFunction: createSnapshot if it was requested, or if the time
\* threshold has passed and operations were counted.
DecideStep ==
    /\ phase \in {"running", "stopping"} /\ pc[SnapshotThread] = "decide"
    /\ pc' = [pc EXCEPT ![SnapshotThread] =
                 IF shouldCreateSnapshot
                    \/ (timeElapsed /\ operationsSinceLastSnapshot_ > 0)
                 THEN "lock_shared_copy" ELSE "loop"]
    /\ shouldCreateSnapshot' = FALSE
    /\ UNCHANGED <<phase, memory, snapshotRequested_, shutdownRequested_,
                   timeElapsed, components, mutexRest>>

\* ~StorageManager is called: it arrives at its lock_guard on snapshotMutex_.
DestroyStep ==
    /\ phase = "running" /\ UsersIdle /\ pc[MainThread] = "idle"
    /\ phase' = "stopping"
    /\ pc' = [pc EXCEPT ![MainThread] = "lock_shutdown"]
    /\ UNCHANGED <<memory, flags, components, mutexRest>>

\* ~StorageManager under snapshotMutex_: raise the shutdown flag, notify.
Shutdown ==
    /\ phase = "stopping" /\ pc[MainThread] = "shutdown"
    /\ shutdownRequested_' = TRUE
    /\ snapshotMutex_' = NoLock
    /\ pc' = [pc EXCEPT ![MainThread] = "join"]
    /\ UNCHANGED <<phase, memory, snapshotRequested_, shouldCreateSnapshot,
                   timeElapsed, unitCall, unitResult, fileLocks, filePc,
                   fileLocal, files, journalMutex_, sharedHolders, mutexRest>>

\* ~StorageManager: join returns, the final createSnapshot is called.
JoinStep ==
    /\ phase = "stopping" /\ pc[MainThread] = "join"
    /\ pc[SnapshotThread] = "exited"
    /\ pc' = [pc EXCEPT ![MainThread] = "lock_shared_copy"]
    /\ UNCHANGED <<phase, memory, flags, components, mutexRest>>

\* The first lock of each call a user thread can make.
FirstLocks ==
    {"lock_unique", "lock_shared_get", "lock_shared_copy", "lock_request"}

NextMutex ==
    \/ Construct
    \/ \E t \in Users, first \in FirstLocks : Call(t, first)
    \/ \E t \in Users, n \in 1..MaxThreshold :
          SetSnapshotOperationsThreshold(t, n)
    \/ \E t \in Users : Done(t)
    \/ \E t \in Threads : LockStorage(t)
    \/ \E t \in Users, ok \in BOOLEAN : Mutate(t, ok)
    \/ \E t \in Threads, timeout \in BOOLEAN : LockSnapshotMutex(t, timeout)
    \/ \E t \in Users : Request(t)
    \/ \E t \in Threads : UnlockShared(t)
    \/ \E t \in Threads, ok \in BOOLEAN : WriteFile(t, ok)
    \/ \E t \in Threads : LockJournal(t)
    \/ \E t \in Threads, ok \in BOOLEAN : Checkpoint(t, ok)
    \/ LoopTest
    \/ Wait
    \/ DecideStep
    \/ Tick
    \/ DestroyStep
    \/ Shutdown
    \/ JoinStep
    \/ FinishDestroy

SpecMutex == Init /\ [][NextMutex]_vars

\* ------------------------------------------------------ journal file text
\* The journal file as text, character by character: the header the
\* constructor writes, the lines do_writeOperation appends, and the checks
\* the constructor makes when the file is opened again.  safeFileAppend hands
\* a whole serialized line to one write of a file opened for append, so a
\* line arrives in the file in one piece, in the order of the calls.
JournalFilePath == <<"journal", "">>

\* JOURNAL_HEADER: a comment line.
JournalHeaderText == <<"#", "x", LF>>

\* The position of the first line feed at or after position i, or 0.
RECURSIVE findLineFeed(_, _)
findLineFeed(content, i) ==
    IF i > Len(content) THEN 0
    ELSE IF content[i] = LF THEN i
    ELSE findLineFeed(content, i + 1)

\* The loop of isJournalValid over the content of the file, from position
\* pos on: readLineFromJournalContent cuts the line at the next line feed (or
\* at the end of the content) and passes over empty lines and comments;
\* deserialize has to accept every other line.
RECURSIVE validFrom(_, _)
validFrom(content, pos) ==
    IF pos > Len(content) THEN TRUE
    ELSE LET nextPos == findLineFeed(content, pos)
             endlFound == nextPos # 0
             last == IF endlFound THEN nextPos - 1 ELSE Len(content)
             currentLine == SubSeq(content, pos, last)
             newPos == IF endlFound THEN nextPos + 1 ELSE Len(content) + 1
         IN  IF currentLine = << >> \/ currentLine[1] = "#"
             THEN validFrom(content, newPos)
             ELSE /\ deserializeLine(currentLine) # NoTextEntry
                  /\ validFrom(content, newPos)

\* JournalManager::isJournalValid on the text of an existing file.
isJournalValidText(content) == validFrom(content, 1)

\* The data of the entries written: texts with each character the line
\* format reserves.
FileData ==
    {<< >>, <<"x">>, <<LF>>, <<CR>>, <<FIELD_SEPARATOR>>, <<ESCAPE_CHAR>>,
     <<ESCAPE_CHAR, "n">>, <<"x", LF, "#">>}

\* The entries a StorageManager writes: insert and update with the caller's
\* data, remove and the checkpoint with none; the identifier is one made by
\* generateUuid.
FileEntries ==
    {TextEntry(t, <<"x">>, <<"x">>, d) : t \in {"INSERT", "UPDATE"}, d \in FileData}
    \cup {TextEntry(t, <<"x">>, <<"x">>, << >>) : t \in {"REMOVE", "CHECKPOINT"}}

\* The lines in the file: its line feeds.
LinesIn(content) == Cardinality({i \in 1..Len(content) : content[i] = LF})

\* A directory whose journal the constructor has just created.
InitFile ==
    /\ EmptyDirectory
    /\ unitCall = NoCall
    /\ unitResult = NoResult
    /\ NoFileLocks
    /\ filePc = [t \in Threads |-> "idle"]
    /\ fileLocal = [t \in Threads |-> NoLocal]
    /\ files = Put(NoFiles, JournalFilePath, JournalHeaderText)
    /\ journalMutex_ = NoLock
    /\ snapshotMutex_ = NoLock
    /\ sharedHolders = {}

\* do_writeOperation: serialize the entry, safeFileAppend the line.  A
\* failed append (the file cannot be opened, or the write fails before any
\* byte is written) leaves the file as it is.
AppendLine(entry, ok) ==
    /\ LinesIn(files[JournalFilePath]) < MaxLines
    /\ unitCall' = [fn |-> "do_writeOperation", entry |-> entry]
    /\ unitResult' = [fn |-> "do_writeOperation", returned |-> ok]
    /\ files' = IF ok
                THEN Put(files, JournalFilePath,
                         files[JournalFilePath] \o serialize(entry))
                ELSE files
    /\ UNCHANGED <<storage, fileLocks, filePc, fileLocal, journalMutex_,
                   stepMutexes>>

\* JournalManager::JournalManager on the file, after the store was closed:
\* a file that is not valid is copied to a backup and replaced by the header.
Reopen(backupOk, writeOk) ==
    LET content == files[JournalFilePath]
        valid == isJournalValidText(content)
        backedUp == ~valid /\ backupOk
        throws == ~valid /\ (~backupOk \/ ~writeOk)
    IN  /\ unitCall' = [fn |-> "JournalManager"]
        /\ unitResult' = [fn |-> "JournalManager", valid |-> valid,
                          throws |-> throws]
        /\ files' = LET kept == IF backedUp
                                THEN Put(files, <<"journal", ".backup">>, content)
                                ELSE files
                    IN  IF ~valid /\ ~throws
                        THEN Put(kept, JournalFilePath, JournalHeaderText)
                        ELSE kept
        /\ UNCHANGED <<storage, fileLocks, filePc, fileLocal, journalMutex_,
                       stepMutexes>>

NextFile ==
    \/ \E entry \in FileEntries, ok \in BOOLEAN : AppendLine(entry, ok)
    \/ \E backupOk \in BOOLEAN, writeOk \in BOOLEAN : Reopen(backupOk, writeOk)

SpecFile == InitFile /\ [][NextFile]_vars

\* -------------------------------------------------------------- properties
\* C1: in a store started on an empty directory, whenever no insert, update
\* or remove is in progress the map equals the replay of the journal on an
\* empty map; and the map changes only by applying an entry that is already
\* in the journal.
C1_MapIsReplayOfJournal ==
    [][ /\ (phase' = "running" /\ restarts' = 1 /\ inflight' = NoEntry)
           => dataStore_' = replayJournal(EmptyMap, journal', NoUuid).store
        /\ (phase = "running" /\ phase' = "running"
            /\ dataStore_' # dataStore_)
           => /\ \E i \in 1..Len(journal) : journal[i] = inflight
              /\ dataStore_' = applyOperation(inflight, dataStore_).store
      ]_vars

\* An insert and an update of the inserted entry are in the journal, nothing
\* is in progress, and the map holds the updated value.
C1_Witness ==
    /\ phase = "running" /\ restarts = 1 /\ inflight = NoEntry
    /\ Len(journal) >= 2
    /\ journal[1].type = "INSERT" /\ journal[2].type = "UPDATE"
    /\ journal[2].data # journal[1].data
    /\ Lookup(dataStore_, journal[1].uuid) = journal[2].data

\* C2: after an abrupt stop between two steps, the map a new StorageManager
\* recovers holds the effect of every mutation that had returned success
\* (and at most the one entry that was appended by a call still in flight).
C2_CrashKeepsReturnedMutations ==
    [][ (lastStop = "crash" /\ phase # "running" /\ phase' = "running")
        => dataStore_' \in {expected, applyOperation(inflight, expected).store}
      ]_vars

\* C3: when createSnapshot appends its CHECKPOINT entry, the snapshot file
\* decodes to the replay of all journal entries that precede the entry.
C3_SnapshotMatchesCheckpoint ==
    [][ (Len(journal') = Len(journal) + 1
         /\ journal'[Len(journal')].type = "CHECKPOINT")
        => deserializeMap(snapshotFile.bytes).map
               = replayJournal(EmptyMap, journal, NoUuid).store
      ]_vars

\* C4: when the snapshot file has no CHECKPOINT entry of its own in the
\* journal, the map recovered at construction equals the replay of the whole
\* journal.
C4_StrandedSnapshotRecovery ==
    [][ (phase # "running" /\ phase' = "running"
         /\ snapshotFile.exists
         /\ \A i \in 1..Len(journal) :
               ~(journal[i].type = "CHECKPOINT"
                 /\ journal[i].uuid = snapshotFile.sid))
        => dataStore_' = replayJournal(EmptyMap, journal, NoUuid).store
      ]_vars

\* C5 as stated: opening a store whose journal has a line that does not
\* parse skips only that line, so the map is the snapshot with every valid
\* entry of the journal replayed.
C5_OnlyBadLineSkipped ==
    [][ (phase # "running" /\ phase' = "running"
         /\ journalExists
         /\ \E i \in 1..Len(journal) : deserialize(journal[i]) = NoEntry)
        => dataStore_' = loadFromDisk(snapshotFile, journal).store
      ]_vars

\* C5 amended: replayJournal itself skips a line that does not parse, but a
\* store opened on a journal with such a line sets the whole journal aside as
\* a backup and starts from a header-only journal, so the map holds what the
\* snapshot holds and none of the journal's entries.
C5_BadLineDiscardsJournal ==
    [][ (phase # "running" /\ phase' = "running"
         /\ journalExists
         /\ \E i \in 1..Len(journal) : deserialize(journal[i]) = NoEntry)
        => /\ dataStore_' = loadSnapshot(snapshotFile).map
           /\ journal' = << >>
           /\ replayJournal(EmptyMap, journal, NoUuid).store
                 = replayJournal(EmptyMap,
                       SelectSeq(journal, LAMBDA l : deserialize(l) # NoEntry),
                       NoUuid).store
      ]_vars

\* A store is running that was opened on a journal of two valid INSERT lines
\* around a garbage line, and its map is empty.
C5_Witness ==
    /\ phase = "running"
    /\ backups = << <<Entry("INSERT", "1", "a"), GarbageLine,
                      Entry("INSERT", "2", "b")>> >>
    /\ dataStore_ = EmptyMap

\* C6: constructing on an existing journal that fails validation either
\* succeeds with a backup holding the original lines and a header-only
\* journal (no entries come from it), or fails and leaves the journal as it
\* was; without a backup it always fails.
C6_InvalidJournalBackedUp ==
    [][ (phase # "running" /\ restarts' = restarts + 1
         /\ journalExists /\ ~isJournalValid(journal))
        => /\ phase' \in {"running", "failed"}
           /\ phase' = "running"
              => /\ backups' = Append(backups, journal)
                 /\ journalExists' /\ journal' = << >>
                 /\ (~loadSnapshot(snapshotFile).ok => dataStore_' = EmptyMap)
           /\ phase' = "failed"
              => journalExists' /\ journal' = journal
           /\ backups' = backups => phase' = "failed"
      ]_vars

\* A construction failed on a journal ending in a cut line: no backup, the
\* journal still there.
C6_Witness ==
    /\ phase = "failed"
    /\ backups = << >>
    /\ journal = <<Entry("INSERT", "1", "a"), TornLine>>

\* C7: a StorageManager constructed after a destruction with no user call
\* in flight has the map the destroyed one had.
C7_CleanRestartKeepsMap ==
    [][ (lastStop = "clean" /\ phase # "running" /\ phase' = "running")
        => dataStore_' = expected
      ]_vars

\* C8: when the journal append of insert, update or remove fails, the call
\* returns failure at once, and map, journal and operation counter are as
\* they were.
C8_AppendFailureChangesNothing ==
    [][ \A t \in Users :
          (pc[t] = "idle"
           /\ op'[t].type \in {"INSERT", "UPDATE", "REMOVE"}
           /\ (op'[t].type = "INSERT" \/ op'[t].uuid \in DOMAIN dataStore_)
           /\ journal' = journal)
          => /\ pc'[t] = "returned"
             /\ ret'[t] = IF op'[t].type = "INSERT" THEN "nullopt" ELSE "false"
             /\ dataStore_' = dataStore_
             /\ operationsSinceLastSnapshot_' = operationsSinceLastSnapshot_
             /\ snapshotRequested_' = snapshotRequested_
      ]_vars

\* An insert returned no identifier while the store holds other entries.
C8_Witness ==
    /\ \E t \in Users :
          pc[t] = "returned" /\ op[t].type = "INSERT" /\ ret[t] = "nullopt"
    /\ dataStore_ # EmptyMap

\* C9: update and remove of an identifier that is not in the map return
\* false, and map, journal and operation counter are as they were.
C9_AbsentIdChangesNothing ==
    [][ \A t \in Users :
          (pc[t] = "idle"
           /\ op'[t].type \in {"UPDATE", "REMOVE"}
           /\ op'[t].uuid \notin DOMAIN dataStore_)
          => /\ pc'[t] = "returned"
             /\ ret'[t] = "false"
             /\ dataStore_' = dataStore_
             /\ journal' = journal
             /\ operationsSinceLastSnapshot_' = operationsSinceLastSnapshot_
             /\ snapshotRequested_' = snapshotRequested_
      ]_vars

\* A remove of an identifier that was never handed out returned false on a
\* store that holds entries.
C9_Witness ==
    /\ \E t \in Users :
          /\ pc[t] = "returned" /\ op[t].type = "REMOVE" /\ ret[t] = "false"
          /\ op[t].uuid = ToString(MaxUuid)
    /\ nextUuid <= MaxUuid
    /\ dataStore_ # EmptyMap

\* C10: an entry is appended only when every entry before it has had its map
\* step, the map step applies the entry appended last, and get returns what
\* the replay of the whole journal holds for the identifier.
C10_MapOrderIsJournalOrder ==
    [][ /\ (Len(journal') = Len(journal) + 1
            /\ journal'[Len(journal')].type # "CHECKPOINT")
           => inflight = NoEntry /\ inflight' = journal'[Len(journal')]
        /\ (phase = "running" /\ dataStore_' # dataStore_)
           => /\ inflight # NoEntry /\ inflight' = NoEntry
              /\ dataStore_' = mutate(dataStore_, inflight)
        /\ \A t \in Users :
              (pc[t] = "idle" /\ op'[t].type = "GET")
              => ret'[t] = Lookup(replayJournal(EmptyMap, journal,
                                                NoUuid).store, op'[t].uuid)
      ]_vars

\* One client's get returned the value the other client's update wrote.
C10_Witness ==
    /\ pc["u1"] = "returned" /\ op["u1"].type = "UPDATE" /\ ret["u1"] = "true"
    /\ pc["u2"] = "returned" /\ op["u2"].type = "GET"
    /\ op["u2"].uuid = op["u1"].uuid
    /\ ret["u2"] = op["u1"].data

\* C12: at most one createSnapshot call is between its copy of the map and
\* its CHECKPOINT append (or its failing return) at any time.
C12_OneSnapshotAtATime ==
    Cardinality({t \in Threads : pc[t] \in {"s_write", "s_ckpt"}}) <= 1

\* C13: a createSnapshot call gets to its checkpoint write only by writing the
\* snapshot file of its copy under its identifier; a CHECKPOINT line is
\* appended only by a call that is there, with that call's identifier; a call
\* that fails at either write returns false, appends nothing, and leaves the
\* operation counter and the snapshot time as they were; and these two are
\* reset only by a call that has appended its CHECKPOINT.
C13_CheckpointAfterSnapshot ==
    [][ /\ \A t \in Threads :
            /\ (pc[t] # "s_ckpt" /\ pc'[t] = "s_ckpt")
               => /\ pc[t] = "s_write"
                  /\ journal' = journal
                  /\ snapshotFile' = [exists |-> TRUE,
                                      bytes |-> serializeMap(dataCopy[t]),
                                      sid |-> snapshotId[t]]
            /\ (pc[t] = "s_write" /\ pc'[t] \notin {"s_write", "s_ckpt"})
               => /\ journal' = journal /\ snapshotFile' = snapshotFile
                  /\ operationsSinceLastSnapshot_'
                        = operationsSinceLastSnapshot_
                  /\ timeElapsed' = timeElapsed
                  /\ t \in Users => ret'[t] = "false"
            /\ (pc[t] = "s_ckpt" /\ pc'[t] \notin {"s_ckpt", "s_reset"})
               => /\ journal' = journal
                  /\ operationsSinceLastSnapshot_'
                        = operationsSinceLastSnapshot_
                  /\ timeElapsed' = timeElapsed
                  /\ t \in Users => ret'[t] = "false"
        /\ (/\ Len(journal') = Len(journal) + 1
            /\ journal'[Len(journal')].type = "CHECKPOINT")
           => \E t \in Threads :
                 /\ pc[t] = "s_ckpt" /\ pc'[t] = "s_reset"
                 /\ journal'[Len(journal')].uuid = snapshotId[t]
        /\ (/\ phase' # "closed"
            /\ \/ operationsSinceLastSnapshot_' < operationsSinceLastSnapshot_
               \/ timeElapsed /\ ~timeElapsed')
           => \E t \in Threads : pc[t] = "s_reset" /\ pc'[t] # "s_reset"
      ]_vars

\* The client's createSnapshot wrote the snapshot file, failed to append the
\* CHECKPOINT and returned false; the operation counter still counts the
\* insert made before.
C13_Witness ==
    /\ pc["u1"] = "returned" /\ op["u1"].type = "SNAPSHOT"
    /\ ret["u1"] = "false"
    /\ snapshotFile.exists
    /\ \A i \in 1..Len(journal) : journal[i].type # "CHECKPOINT"
    /\ operationsSinceLastSnapshot_ > 0

\* C14: when the snapshot file is absent or does not decode, the map the
\* constructor builds is the replay of every line of the journal on an empty
\* map, checkpoints or not.
C14_NoSnapshotReplaysAll ==
    [][ (phase' = "running" /\ phase # "running"
         /\ ~loadSnapshot(snapshotFile).ok)
        => dataStore_' = replayJournal(EmptyMap, journal', NoUuid).store
      ]_vars

\* The store runs on a journal with an insert before a CHECKPOINT and a
\* snapshot file that does not decode, and the map holds the insert.
C14_Witness ==
    /\ phase = "running"
    /\ snapshotFile.exists /\ ~deserializeMap(snapshotFile.bytes).ok
    /\ \E i, j \in 1..Len(journal) :
          /\ i < j
          /\ journal[i].type = "INSERT" /\ journal[j].type = "CHECKPOINT"
          /\ journal[i].uuid \in DOMAIN dataStore_

\* The snapshot thread, or the destructor after shutdown, is about to enter
\* createSnapshot.
AttemptStarts ==
    pc[SnapshotThread] = "s_copy" \/ pc[MainThread] = "s_copy"

\* C15: an insert, update or remove that succeeds and brings the operation
\* counter to the threshold or above raises the request flag before it
\* returns, and from the state it returns in, the snapshot thread (or the
\* destructor, if shutdown comes first) eventually enters createSnapshot.
C15_ThresholdLeadsToSnapshot ==
    /\ [][ \A t \in Users :
              (/\ pc[t] = "apply" /\ pc'[t] = "returned"
               /\ operationsSinceLastSnapshot_' >= snapshotOperationsThreshold_)
              => snapshotRequested_'
         ]_vars
    /\ (\E t \in Users :
           /\ pc[t] = "returned"
           /\ op[t].type \in {"INSERT", "UPDATE", "REMOVE"}
           /\ ret[t] # "false" /\ ret[t] # NoUuid
           /\ operationsSinceLastSnapshot_ >= snapshotOperationsThreshold_
           /\ snapshotRequested_)
       ~> AttemptStarts

\* The threshold was lowered to one, an insert reached it, and the snapshot
\* thread has entered createSnapshot while the insert's caller still holds
\* its result.
C15_Witness ==
    /\ pc["u1"] = "returned" /\ op["u1"].type = "INSERT"
    /\ ret["u1"] = op["u1"].uuid
    /\ snapshotOperationsThreshold_ = 1
    /\ operationsSinceLastSnapshot_ >= snapshotOperationsThreshold_
    /\ pc[SnapshotThread] = "s_copy"

\* C16: when setSnapshotOperationsThreshold returns with the operation
\* counter at or above the new threshold, a createSnapshot is eventually
\* entered, unless a request is raised, the time threshold passes or shutdown
\* is requested first.
C16_LoweredThresholdLeadsToSnapshot ==
    (\E t \in Users :
        /\ pc[t] = "returned" /\ op[t].type = "THRESHOLD"
        /\ operationsSinceLastSnapshot_ >= snapshotOperationsThreshold_)
    ~> \/ AttemptStarts
       \/ \E t \in Users : pc[t] = "s_write"
       \/ snapshotRequested_ \/ shouldCreateSnapshot
       \/ timeElapsed
       \/ shutdownRequested_

\* C17: the snapshot thread takes the request flag as it is when it wakes and
\* enters createSnapshot only if it took a raised flag, or if the time
\* threshold has passed and the operation counter is not zero; the flag is
\* raised only by a mutation that brings the counter to the threshold or
\* above, or by a call that changes nothing else (requestSnapshotAsync).
C17_SnapshotOnlyWhenDue ==
    [][ /\ (pc[SnapshotThread] = "loop" /\ pc'[SnapshotThread] = "decide")
           => shouldCreateSnapshot' = snapshotRequested_
        /\ (pc[SnapshotThread] # "s_copy" /\ pc'[SnapshotThread] = "s_copy")
           => /\ pc[SnapshotThread] = "decide"
              /\ \/ shouldCreateSnapshot
                 \/ timeElapsed /\ operationsSinceLastSnapshot_ > 0
        /\ (pc[SnapshotThread] # "s_write" /\ pc'[SnapshotThread] = "s_write")
           => pc[SnapshotThread] = "s_copy"
        /\ (~snapshotRequested_ /\ snapshotRequested_')
           => \/ /\ operationsSinceLastSnapshot_'
                       = operationsSinceLastSnapshot_ + 1
                 /\ operationsSinceLastSnapshot_'
                       >= snapshotOperationsThreshold_
              \/ /\ pc' = pc /\ dataStore_' = dataStore_
                 /\ journal' = journal
                 /\ operationsSinceLastSnapshot_'
                       = operationsSinceLastSnapshot_
      ]_vars

\* Fewer operations than the threshold were counted, nothing is requested,
\* the time threshold has passed, and the snapshot thread has entered
\* createSnapshot.
C17_Witness ==
    /\ pc[SnapshotThread] = "s_copy"
    /\ ~snapshotRequested_
    /\ timeElapsed
    /\ operationsSinceLastSnapshot_ > 0
    /\ operationsSinceLastSnapshot_ < snapshotOperationsThreshold_

\* C18: once the request flag is raised in a running store, the snapshot thread (or the
\* destructor, if shutdown comes first) eventually enters createSnapshot; the
\* flag is lowered only by the snapshot thread taking it as it wakes, and the
\* taken request is spent by the one createSnapshot it starts.
C18_RequestLeadsToOneSnapshot ==
    /\ (phase = "running" /\ snapshotRequested_) ~> AttemptStarts
    /\ [][ /\ (snapshotRequested_ /\ ~snapshotRequested_' /\ phase' # "closed")
              => /\ pc[SnapshotThread] = "loop"
                 /\ pc'[SnapshotThread] = "decide"
                 /\ shouldCreateSnapshot'
           /\ (pc[SnapshotThread] = "decide" /\ pc'[SnapshotThread] = "s_copy")
              => ~shouldCreateSnapshot'
           /\ (shouldCreateSnapshot /\ ~shouldCreateSnapshot'
               /\ phase' # "closed")
              => pc'[SnapshotThread] = "s_copy"
         ]_vars

\* A request was made and taken, and the snapshot thread has entered the one
\* createSnapshot for it: no operation is counted and nothing else is due.
C18_Witness ==
    /\ pc[SnapshotThread] = "s_copy"
    /\ ~snapshotRequested_ /\ ~shouldCreateSnapshot
    /\ ~timeElapsed
    /\ operationsSinceLastSnapshot_ = 0
    /\ phase = "running"

\* C19: a destruction that has begun ends; the destructor is in its
\* createSnapshot only when the snapshot thread has exited, enters it only
\* from the join and returns only after it; and the snapshot thread exits
\* only when shutdown is requested.
C19_DestructionTerminates ==
    /\ (phase = "stopping") ~> (phase = "closed")
    /\ [](pc[MainThread] \in {"s_copy", "s_write", "s_ckpt", "s_reset", "done"}
          => pc[SnapshotThread] = "exited")
    /\ [][ /\ (pc[MainThread] # "s_copy" /\ pc'[MainThread] = "s_copy")
              => pc[MainThread] = "join"
           /\ (phase = "stopping" /\ phase' = "closed")
              => pc[MainThread] = "done"
           /\ (pc[MainThread] # "done" /\ pc'[MainThread] = "done")
              => pc[MainThread] \in {"s_write", "s_ckpt", "s_reset"}
           /\ (pc[SnapshotThread] # "exited" /\ pc'[SnapshotThread] = "exited")
              => shutdownRequested_
         ]_vars

\* Shutdown came while a request was pending: the snapshot thread has exited
\* without taking it and the destructor is inside its createSnapshot.
C19_Witness ==
    /\ phase = "stopping"
    /\ pc[SnapshotThread] = "exited"
    /\ pc[MainThread] = "s_write"
    /\ snapshotRequested_

\* C20: the identifiers of the entries one store has written to its journal
\* are pairwise distinct.
C20_IdentifiersNeverRepeat ==
    \A i, j \in 1..Len(journal) :
        i # j => journal[i].uuid # journal[j].uuid

\* C11: when no insert is in progress and every journal line is an insert
\* that returned its identifier, the map holds as many entries as there are
\* lines, and under the identifier of each line the payload of that line.
C11_InsertsKeepEachOther ==
    (/\ phase = "running" /\ inflight = NoEntry
     /\ \A i \in 1..Len(journal) : journal[i].type = "INSERT")
    => /\ Cardinality(DOMAIN dataStore_) = Len(journal)
       /\ \A i \in 1..Len(journal) :
              Lookup(dataStore_, journal[i].uuid) = journal[i].data

\* C21: for every entry whose identifier is not empty and holds no separator
\* and no line break, whatever characters its data holds, the serialized line
\* has no line feed or carriage return before the line feed that ends it, and
\* deserializing the line without that line feed gives an entry of the same
\* type, identifier and data.
C21_JournalLineRoundTrip ==
    /\ (unitResult.fn = "serialize" /\ PlainId(unitCall.entry.uuid))
       => /\ unitResult.line[Len(unitResult.line)] = LF
          /\ \A i \in 1..(Len(unitResult.line) - 1) :
                unitResult.line[i] \notin {LF, CR}
    /\ (unitCall.fn = "deserialize" /\ PlainId(unitCall.of.uuid))
       => /\ unitResult.entry # NoTextEntry
          /\ unitResult.entry.type = unitCall.of.type
          /\ unitResult.entry.uuid = unitCall.of.uuid
          /\ unitResult.entry.data = unitCall.of.data

C21_Witness ==
    /\ unitCall.fn = "deserialize"
    /\ PlainId(unitCall.of.uuid)
    /\ unitCall.of.data = <<FIELD_SEPARATOR, ESCAPE_CHAR, LF>>
    /\ unitResult.entry.data = <<FIELD_SEPARATOR, ESCAPE_CHAR, LF>>

\* C22: for every map of byte-string keys to byte-string values, empty keys
\* and empty values included, and whatever order the pairs are written in,
\* decoding the snapshot encoding of the map succeeds and returns exactly
\* that map; and the encoding of the empty map is the four bytes 00 00 00 00.
C22_SnapshotRoundTrip ==
    /\ unitCall.fn = "deserializeMap"
       => /\ unitResult.decoded.ok
          /\ unitResult.decoded.map = unitCall.of
    /\ (unitResult.fn = "serializeMap" /\ DOMAIN unitCall.map = {})
       => unitResult.buf = <<0, 0, 0, 0>>

C22_Witness ==
    /\ unitCall.fn = "deserializeMap"
    /\ DOMAIN unitCall.of = {<< >>, <<1>>}
    /\ unitCall.of[<< >>] = <<65, 0>> /\ unitCall.of[<<1>>] = << >>
    /\ unitResult.decoded.map = unitCall.of

\* What the entries of lines do to a map when applied in file order: INSERT
\* sets the value of its id, UPDATE sets it and REMOVE deletes it if the id
\* is there, everything else leaves the map as it is.
RECURSIVE AppliedInOrder(_, _)
AppliedInOrder(lines, store) ==
    IF lines = << >> THEN store
    ELSE LET e == Head(lines)
             next ==
                 IF e.type = "INSERT" THEN Put(store, e.uuid, e.data)
                 ELSE IF e.type = "UPDATE" /\ Has(store, e.uuid)
                 THEN Put(store, e.uuid, e.data)
                 ELSE IF e.type = "REMOVE" /\ Has(store, e.uuid)
                 THEN Erase(store, e.uuid)
                 ELSE store
         IN  AppliedInOrder(Tail(lines), next)

\* Where the CHECKPOINT line with the id is in lines, 0 if nowhere.
CheckpointAt(lines, id) ==
    IF \E i \in 1..Len(lines) :
          lines[i].type = "CHECKPOINT" /\ lines[i].uuid = id
    THEN CHOOSE i \in 1..Len(lines) :
            lines[i].type = "CHECKPOINT" /\ lines[i].uuid = id
    ELSE 0

\* The id of the last CHECKPOINT line of lines, NoUuid if there is none.
LastCheckpointIn(lines) ==
    LET at == {i \in 1..Len(lines) : lines[i].type = "CHECKPOINT"} IN
    IF at = {} THEN NoUuid
    ELSE lines[CHOOSE i \in at : \A j \in at : j <= i].uuid

\* C23: replayJournal without a start-after id returns success and leaves in
\* the given map what applying every entry of the journal in file order
\* gives, UPDATE and REMOVE entries for absent ids included.
C23_ReplayAppliesInFileOrder ==
    [][(unitCall'.fn = "replayJournal" /\ ~unitCall'.given)
       => /\ unitResult'.ok
          /\ unitResult'.dataStore
                = AppliedInOrder(journal, unitCall'.dataStore)]_vars

C23_Witness ==
    /\ unitCall.fn = "replayJournal" /\ ~unitCall.given
    /\ journal = <<Entry("UPDATE", "2", "b"), Entry("INSERT", "1", "a"),
                   Entry("REMOVE", "1", "")>>
    /\ unitCall.dataStore = Put(EmptyMap, "1", "b")
    /\ unitResult.ok /\ unitResult.dataStore = EmptyMap

\* C24: replayJournal with a start-after id c applies to the given map the
\* entries that follow the CHECKPOINT entry with id c, in file order and
\* without the CHECKPOINT entries among them, and returns success; if the
\* journal has no CHECKPOINT entry with id c it returns failure and the map
\* is as it was given.
C24_ReplayFromCheckpoint ==
    [][(unitCall'.fn = "replayJournal" /\ unitCall'.given)
       => LET k == CheckpointAt(journal, unitCall'.lastCheckpoint) IN
          IF k = 0
          THEN /\ ~unitResult'.ok
               /\ unitResult'.dataStore = unitCall'.dataStore
          ELSE /\ unitResult'.ok
               /\ unitResult'.dataStore
                     = AppliedInOrder(SubSeq(journal, k + 1, Len(journal)),
                                      unitCall'.dataStore)]_vars

C24_Witness ==
    /\ unitCall.fn = "replayJournal" /\ unitCall.given
    /\ unitCall.lastCheckpoint = "2"
    /\ journal = <<Entry("INSERT", "1", "a"), Entry("CHECKPOINT", "2", ""),
                   Entry("UPDATE", "1", "b")>>
    /\ unitCall.dataStore = Put(EmptyMap, "1", "b")
    /\ unitResult.ok /\ unitResult.dataStore = Put(EmptyMap, "1", "b")

\* C25: truncateJournalToCheckpoint(c) on a journal that has a CHECKPOINT
\* entry with id c, when its lock is taken and the file can be written,
\* returns success and leaves in the journal that CHECKPOINT entry and every
\* entry after it, in their order; and getLastCheckpointId afterwards returns
\* the id of the last CHECKPOINT entry left.
C25_TruncateKeepsFromCheckpoint ==
    [][(/\ unitCall'.fn = "truncateJournalToCheckpoint"
        /\ unitCall'.locked /\ unitCall'.written
        /\ CheckpointAt(journal, unitCall'.checkpointId) # 0)
       => /\ unitResult'.ok
          /\ journal'
                = SubSeq(journal,
                         CheckpointAt(journal, unitCall'.checkpointId),
                         Len(journal))
          /\ getLastCheckpointId(lastCheckpointId_', journal')
                = LastCheckpointIn(journal')]_vars

\* C26: truncateJournalToCheckpoint with an empty id, or with an id no
\* CHECKPOINT entry of the journal has, returns failure and leaves the
\* journal file and the cached last-checkpoint id as they were.
C26_FailedTruncateChangesNothing ==
    [][(/\ unitCall'.fn = "truncateJournalToCheckpoint"
        /\ CheckpointAt(journal, unitCall'.checkpointId) = 0)
       => /\ ~unitResult'.ok
          /\ journal' = journal
          /\ lastCheckpointId_' = lastCheckpointId_]_vars

C26_Witness ==
    /\ unitCall.fn = "truncateJournalToCheckpoint"
    /\ unitCall.checkpointId = "2"
    /\ ~unitResult.ok
    /\ journal = <<Entry("INSERT", "1", "a"), Entry("CHECKPOINT", "3", ""),
                   Entry("UPDATE", "1", "b")>>
    /\ lastCheckpointId_ = "3"

\* C27: whatever calls were made on the JournalManager before,
\* getLastCheckpointId returns the id of the last CHECKPOINT entry the
\* journal file holds, or no value if it holds none; and a checkpoint write
\* that fails leaves the cached id as it was.
C27_LastCheckpointIsLastInFile ==
    [][/\ unitCall'.fn = "getLastCheckpointId"
          => unitResult'.id = LastCheckpointIn(journal')
       /\ (/\ unitCall'.fn = "writeOperation"
           /\ unitCall'.entry.type = "CHECKPOINT"
           /\ ~unitResult'.ok)
          => lastCheckpointId_' = lastCheckpointId_]_vars

C27_Witness ==
    /\ unitCall.fn = "getLastCheckpointId"
    /\ unitResult.id = "3"
    /\ lastCheckpointId_ = "3"
    /\ journal = <<Entry("CHECKPOINT", "2", ""), Entry("CHECKPOINT", "3", ""),
                   Entry("INSERT", "1", "a")>>

\* C28: countOperationsSinceLastCheckpoint, when its lock is taken, returns
\* 0 for a journal with no entries, and for a journal with a CHECKPOINT
\* entry the number of entries from the last CHECKPOINT entry, that entry
\* counted, to the end: 1 right after a checkpoint, N + 1 after N more
\* operations.
C28_CountIncludesCheckpoint ==
    [][(/\ unitCall'.fn = "countOperationsSinceLastCheckpoint"
        /\ unitCall'.locked)
       => /\ journal = << >> => unitResult'.count = 0
          /\ LastCheckpointIn(journal) # NoUuid
             => unitResult'.count
                   = Len(journal)
                     - CheckpointAt(journal, LastCheckpointIn(journal)) + 1]_vars

\* The thread holds the lock of the path in the mode: it has a FileLockGuard
\* of that mode whose acquireFileLock returned true and that it has not
\* released.
Holds(t, mode) == \E i \in 1..Len(guards[t]) : guards[t][i] = mode

\* C29: at no time does a thread hold the lock of the path in EXCLUSIVE mode
\* while another thread of the process holds it in either mode.
C29_ExclusiveExcludesOthers ==
    \A t, u \in LockThreads :
        (t # u /\ Holds(t, "EXCLUSIVE")) => guards[u] = << >>

\* C30: a thread that holds the lock of the path and calls acquireFileLock
\* for it again, in any combination but SHARED while it holds SHARED only,
\* gets false from the call at once, whatever the wait strategy, and its
\* guards and the entry of the path are as before.
C30_SecondRequestFailsAtOnce ==
    [][(/\ unitCall'.fn = "acquireFileLock"
        /\ guards[unitCall'.thread] # << >>
        /\ lockPc[unitCall'.thread] = "idle"
        /\ ~(/\ unitCall'.mode = "SHARED"
             /\ ~Holds(unitCall'.thread, "EXCLUSIVE")))
       => /\ unitResult'.returned = "false"
          /\ guards' = guards
          /\ fileLockMap' = fileLockMap]_vars

\* C31: a release called by a thread that is not among the holders recorded
\* for the lock path returns false and changes nothing: the entry with its
\* holders and reference count, the lock file, the flocks and the guards stay
\* as they were; and a release that a recorded holder makes right after such
\* a failed release returns true and takes one reference away.
C31_ForeignReleaseChangesNothing ==
    [][/\ (/\ unitCall'.fn = "release"
           /\ fileLockMap # NoLockInfo
           /\ \A i \in 1..Len(fileLockMap.threadIds_) :
                 fileLockMap.threadIds_[i] # unitCall'.thread)
          => /\ unitResult'.returned = "false"
             /\ fileLockMap' = fileLockMap
             /\ lockFile' = lockFile
             /\ flocks' = flocks
             /\ guards' = guards
       /\ (/\ unitCall.fn = "release"
           /\ unitCall.thread # unitCall.owner
           /\ unitResult.returned = "false"
           /\ unitCall'.fn = "release"
           /\ fileLockMap # NoLockInfo
           /\ \E i \in 1..Len(fileLockMap.threadIds_) :
                 fileLockMap.threadIds_[i] = unitCall'.thread)
          => /\ unitResult'.returned = "true"
             /\ \/ fileLockMap' = NoLockInfo
                \/ fileLockMap'.refCount_ = fileLockMap.refCount_ - 1]_vars

\* A thread without a guard has just called release on the guard of the
\* thread that holds the lock, and got false.
C31_Witness ==
    /\ unitCall.fn = "release"
    /\ unitCall.thread # unitCall.owner
    /\ unitResult.returned = "false"
    /\ fileLockMap # NoLockInfo
    /\ lockedByThread(fileLockMap, unitCall.owner)
    /\ guards[unitCall.owner] # << >>

\* C32: the entry of the lock path exists exactly while some thread holds a
\* locked guard on it, its reference count is the number of recorded thread
\* ids, and the lock file exists as long as the entry does.
C32_EntryWhileReferenced ==
    /\ (fileLockMap # NoLockInfo)
       <=> (\E t \in LockThreads : guards[t] # << >>)
    /\ fileLockMap # NoLockInfo
       => /\ fileLockMap.refCount_ = Len(fileLockMap.threadIds_)
          /\ lockFile # NoFile

\* C33: a SHARED request goes on waiting only while an EXCLUSIVE holder
\* remains: a turn of its wait that finds the entry held in SHARED mode ends
\* the wait.
C33_SharedWaitsOnlyForExclusive ==
    [][(/\ unitCall'.fn = "wait"
        /\ lockRequest[unitCall'.thread].mode = "SHARED")
       => fileLockMap.mode_ = "EXCLUSIVE"]_vars

\* C34: at every point of one or more atomicFileWrite calls on a path, and
\* after a crash at any of their steps, the path has a file, and the file
\* holds the complete previous content or the complete data of one writer.
C34_PathAlwaysComplete ==
    /\ Has(files, FilePath)
    /\ files[FilePath] \in {PreviousContent} \cup {DataOf(w) : w \in Writers}

\* C35: journal appends are mutually exclusive: no two threads are both
\* between the open of the journal for append and the end of their write.
C35_OneAppendAtATime ==
    \A t, u \in Appenders :
        (filePc[t] = "open" /\ filePc[u] = "open") => t = u

\* C36: appends wait for a truncation: no thread opens the journal for
\* append, and none writes to it, while truncateJournalToCheckpoint is
\* between taking its lock and its return.
C36_AppendsWaitForTruncation ==
    [][\A t \in Appenders :
          (filePc[t] # filePc'[t] /\ filePc[t] \in {"writeOperation", "open"})
          => filePc[MainThread] = "idle"]_vars

\* createSnapshot is past its copy of the map: at the snapshot file write,
\* the CHECKPOINT append or the counter reset.
PastTheCopy(t) == pc[t] \in {"s_write", "s_ckpt", "s_reset"}

\* C37: a thread in createSnapshot that is past its copy of the map holds no
\* map lock: it is not the exclusive holder, and every idle client thread can
\* start get, insert, update and remove unless another client holds the
\* lock, and a mutation that holds it can complete.
C37_NoMapLockPastTheCopy ==
    \A t \in Threads :
        (phase = "running" /\ PastTheCopy(t)) =>
            /\ storageMutex_ # t
            /\ \A u \in Users \ {t} :
                  /\ (/\ pc[u] = "idle" /\ storageMutex_ = NoLock
                      /\ JournalRoom /\ UuidRoom)
                     => /\ ENABLED Get(u, "1")
                        /\ ENABLED Insert(u, "a")
                        /\ ENABLED Update(u, "1", "b")
                        /\ ENABLED Remove(u, "1")
                  /\ pc[u] = "apply" => ENABLED ApplyToMap(u)

\* An insert that started after the snapshot thread's copy of the map has
\* returned while the snapshot thread is still in createSnapshot.
C37_Witness ==
    \E u \in Users :
        /\ phase = "running" /\ PastTheCopy(SnapshotThread)
        /\ pc[u] = "returned" /\ op[u].type = "INSERT"
        /\ Has(dataStore_, op[u].uuid)
        /\ ~Has(dataCopy[SnapshotThread], op[u].uuid)

\* C38: a mutation that completes between a snapshot's copy of the map and
\* that snapshot's counter reset is still counted: when createSnapshot
\* returns true, its snapshot is the one the last checkpoint names, and the
\* map is no longer the copy it wrote, the operation counter is not zero.
C38_CounterKeepsLaterMutations ==
    [][\A t \in Threads :
          (/\ pc[t] = "s_reset" /\ pc'[t] # "s_reset"
           /\ phase = "running" /\ phase' = "running"
           /\ lastCheckpointId_ = snapshotId[t]
           /\ snapshotFile = [exists |-> TRUE,
                              bytes |-> serializeMap(dataCopy[t]),
                              sid |-> snapshotId[t]]
           /\ dataStore_ # dataCopy[t])
          => operationsSinceLastSnapshot_' > 0]_vars

\* The steps thread t takes by itself.
ThreadStep(t) ==
    \/ LockStorage(t)
    \/ \E ok \in BOOLEAN : Mutate(t, ok) \/ WriteFile(t, ok) \/ Checkpoint(t, ok)
    \/ \E timeout \in BOOLEAN : LockSnapshotMutex(t, timeout)
    \/ Request(t)
    \/ UnlockShared(t)
    \/ LockJournal(t)
    \/ t = SnapshotThread /\ (LoopTest \/ Wait \/ DecideStep)
    \/ t = MainThread /\ (Shutdown \/ JoinStep)

\* The threads that thread t waits for: the holders of the mutex it is about
\* to lock, or the snapshot thread it joins.
WaitsFor(t) ==
    CASE pc[t] = "lock_unique" ->
             ({storageMutex_} \ {NoLock}) \cup sharedHolders
      [] pc[t] \in {"lock_shared_get", "lock_shared_copy"} ->
             {storageMutex_} \ {NoLock}
      [] pc[t] \in {"lock_request", "lock_shutdown", "lock_wait", "sleeping"} ->
             {snapshotMutex_} \ {NoLock}
      [] pc[t] = "lock_journal" -> {journalMutex_} \ {NoLock}
      [] pc[t] = "join" /\ pc[SnapshotThread] # "exited" -> {SnapshotThread}
      [] OTHER -> {}

\* Threads that all wait, each for threads of the set only.
Deadlocked(S) ==
    /\ S # {}
    /\ \A t \in S : WaitsFor(t) # {} /\ WaitsFor(t) \subseteq S

\* A thread inside a call, the snapshot thread's loop or the destructor.
InCall(t) == pc[t] \notin {"idle", "returned", "off", "exited", "done"}

\* C39: no set of threads is deadlocked over storageMutex_, snapshotMutex_
\* and journalMutex_: a thread inside a call that waits for nobody has a step
\* to take, no set of threads waits only for its own members, and the
\* snapshot thread does not hold snapshotMutex_ at or after the point where
\* createSnapshot locks storageMutex_.
C39_NoDeadlockOverMutexes ==
    (phase \in {"running", "stopping"}) =>
        /\ \A S \in SUBSET Threads : ~Deadlocked(S)
        /\ \A t \in Threads :
              (InCall(t) /\ WaitsFor(t) = {}) => ENABLED ThreadStep(t)
        /\ pc[SnapshotThread] \in {"decide", "lock_shared_copy", "copy", "write",
                                   "lock_journal", "checkpoint"}
              => snapshotMutex_ # SnapshotThread

\* A mutation holds storageMutex_ exclusively and waits for snapshotMutex_,
\* which is taken, while the snapshot thread waits for storageMutex_.
C39_Witness ==
    \E u \in Users :
        /\ pc[u] = "lock_request" /\ storageMutex_ = u
        /\ snapshotMutex_ \notin {NoLock, u}
        /\ pc[SnapshotThread] = "lock_shared_copy"

=============================================================================
